---- MODULE Spec2Model ----
(***************************************************************************)
(* pycache: a key-value cache with pluggable storage adapters.             *)
(*                                                                         *)
(* The module models the in-memory adapter (adapters/InMemory.py), the     *)
(* embedded-database adapter (adapters/SQLite.py, one SQLiteSession handle *)
(* with its engine connection), the Session wrapper and the PyCache facade *)
(* (py_cache.py) and the TTL worker (worker/TTLWorker.py).                 *)
(*                                                                         *)
(* Specifications: Spec (data calls inside one session), SpecTx            *)
(* (with_transaction blocks), SpecKeys (InMemory.keys step by step),       *)
(* SpecCtl (begin/commit/rollback called directly), SpecSession (session   *)
(* scopes), SpecWorker (the TTL worker), SpecRmw (concurrent get-then-set  *)
(* increments), SpecBatchSet (batch_set with a value that cannot be        *)
(* written), SpecQueue and SpecQueueFair (one SQLiteSession's request      *)
(* queue, executor thread and close), SpecHandles (overlapping session     *)
(* scopes and their handles), SpecBatch (InMemory batch operations of     *)
(* several threads, lock by lock), SpecBatchLocks (the same with repeated  *)
(* keys and values that cannot be written), SpecSweep (the in-memory sweep *)
(* key by key) and SpecShared (a second task writing through a session     *)
(* whose with_transaction block is open).                                  *)
(*                                                                         *)
(* Time is the wall clock in ticks of 1/TicksPerSec second.  The in-memory *)
(* adapter reads the clock at full resolution (datetime.now); the database *)
(* adapter stores and compares timestamps with one-second resolution       *)
(* (CURRENT_TIMESTAMP, strftime "%Y-%m-%d %H:%M:%S"), kept here in whole    *)
(* seconds.                                                                *)
(***************************************************************************)
EXTENDS Integers, Sequences, FiniteSets, TLC

\* ------------------------------------------------------------------ bounds
TicksPerSec == 2
MaxTime == 3
\* the clock bound of the specification with transaction blocks
MaxTimeTx == 1
MaxId == 2
\* calls made inside one with_transaction block
MaxTxOps == 2
\* the clock bound of the specification with the TTL worker
MaxTimeW == 4

\* ------------------------------------------------------------ input sets
AllKeys == {"k1", "k2"}
AllValues == {"v1", "v2"}
\* ttl arguments a caller may pass to Session.set_expire
TTLArgs == {-1, 0, 1, 2}
Backends == {"InMemory", "SQLite"}

\* Python None for the optional numeric fields (expires_at, ttl, results)
None == -1000
\* Python None as a returned value
NoneV == "None"

VARIABLES
    backend,            \* which Adapter subclass the facade was built with
    now,                \* wall clock, in ticks
    shared_db,          \* InMemory._shared_db : key -> entry
    working,            \* SQLite: table as seen by the session's connection
    committed,          \* SQLite: table as stored in the database file
    last_insert_rowid,  \* SQLite: connection's last_insert_rowid()
    in_transaction,     \* SQLiteSession._in_transaction
    pc,                 \* client position: "idle" or "inTx" (inside with_transaction)
    tx,                 \* bookkeeping of the current / last with_transaction block
    ret,                \* the last completed call and what it returned
    kpc,                \* InMemory.keys() in progress: "idle", "loop", "done"
    know,               \* keys(): `now` read at entry
    ksnap,              \* keys(): keys_snapshot still to visit
    kvalid,             \* keys(): valid_keys
    connected,          \* InMemory._connected / SQLiteSession._running of the handle
    session,            \* the PyCache.session() scope and the calls it made
    ttl_worker,         \* PyCache._ttl_worker: the TTLWorker, its task and thread
    tasks,              \* client tasks doing get-then-set on the counter key
    shared_locks,       \* InMemory._shared_locks: key -> owner of the lock (0: free)
    sq_session,         \* one SQLiteSession: _running, _operation_queue, _executor, _db
    futures,            \* the futures _execute created, in creation order
    clients,            \* the tasks of the event loop that use that SQLiteSession
    handles,            \* the adapter objects connect() has returned
    scopes,             \* PyCache.session() scopes: the handle of each, and if open
    batch_ops           \* threads inside InMemory.batch_get / batch_set

vars == <<backend, now, shared_db, working, committed, last_insert_rowid,
          in_transaction, pc, tx, ret, kpc, know, ksnap, kvalid,
          connected, session, ttl_worker, tasks, shared_locks,
          sq_session, futures, clients, handles, scopes, batch_ops>>

storeVars == <<shared_db, working, committed, last_insert_rowid, in_transaction>>
keysVars == <<kpc, know, ksnap, kvalid>>
concVars == <<sq_session, futures, clients, handles, scopes, batch_ops>>
auxVars == <<connected, session, ttl_worker, tasks, shared_locks, concVars>>

\* ----------------------------------------------------------- small helpers
Max(a, b) == IF a >= b THEN a ELSE b

\* f with key k bound to e (dict item assignment / row insert)
Put(f, k, e) == [x \in (DOMAIN f) \cup {k} |-> IF x = k THEN e ELSE f[x]]

\* f without key k (del dict[k] / DELETE)
Drop(f, k) == [x \in (DOMAIN f) \ {k} |-> f[x]]

EmptyMap == [x \in {} |-> 0]

SeqRange(sq) == {sq[i] : i \in 1..Len(sq)}

\* the record of the most recent call: arguments, age in ticks, and the
\* result by type.  A write is remembered for less than one second, any other
\* call until the clock moves.
\*   rv: returned value, rn: returned number, rb: returned bool,
\*   rk: returned key list (as a set), err: exception raised ("ok" if none),
\*   adapter: whether the adapter method was invoked,
\*   kv: the mapping passed to or returned by a batch call (rk: its key list),
\*   queued: whether the call put a payload on SQLite's _operation_queue
Call(op, key, val, ttl, rv, rn, rb, rk, err, adapter) ==
    [op |-> op, key |-> key, val |-> val, ttl |-> ttl, age |-> 0,
     rv |-> rv, rn |-> rn, rb |-> rb, rk |-> rk, err |-> err, adapter |-> adapter,
     kv |-> EmptyMap, queued |-> FALSE]

NoCall == [op |-> "none", key |-> "", val |-> "", ttl |-> None, age |-> 0,
           rv |-> NoneV, rn |-> None, rb |-> FALSE, rk |-> {}, err |-> "ok",
           adapter |-> FALSE, kv |-> EmptyMap, queued |-> FALSE]

\* ValueError("Connection is closed")
ConnectionClosed == "ValueError: Connection is closed"

\* a variant of the connection test that lets every call through
check_connected_skips(flag) == TRUE

\* InMemory._check_connected / the test at the head of SQLite._execute:
\* whether a call on a handle with this connection flag goes ahead
check_connected(flag) == flag

\* the call a closed handle refuses: the exception is raised before anything
\* else is done
Refused(op, key, ttl) ==
    Call(op, key, "", ttl, NoneV, None, FALSE, {}, ConnectionClosed, TRUE)

\* SQLite._execute past the test: the payload is put on _operation_queue, the
\* executor thread runs it and resolves the future the caller awaits
Execute(call) == [call EXCEPT !.queued = (backend = "SQLite")]

\* ================================================================ InMemory
\* InMemory.to_value: stored data is returned as is
InMemory_to_value(data) == data

\* InMemory._is_expired(entry), with the clock reading t
is_expired(entry, t) == entry.expires_at # None /\ t > entry.expires_at

InMemory_get(db, key, t) ==
    IF key \in DOMAIN db /\ ~is_expired(db[key], t)
    THEN InMemory_to_value(db[key].value)
    ELSE NoneV

InMemory_set(db, key, value, t) ==
    IF key \in DOMAIN db
    THEN Put(db, key, [value |-> value,
                       created_at |-> t,
                       expires_at |-> IF db[key].ttl # None
                                      THEN t + db[key].ttl * TicksPerSec
                                      ELSE None,
                       ttl |-> db[key].ttl])
    ELSE Put(db, key, [value |-> value, created_at |-> t,
                       expires_at |-> None, ttl |-> None])

\* a variant of delete that removes nothing
InMemory_delete_keeps(db, key) == db

InMemory_delete(db, key) == IF key \in DOMAIN db THEN Drop(db, key) ELSE db

InMemory_delete_result(db, key) == IF key \in DOMAIN db THEN 1 ELSE 0

InMemory_exists(db, key, t) == key \in DOMAIN db /\ ~is_expired(db[key], t)

\* a variant of set_expire that keeps an expiry the entry already has
InMemory_set_expire_keeps(db, key, ttl, t) ==
    IF key \in DOMAIN db
    THEN Put(db, key, [db[key] EXCEPT !.expires_at = IF @ # None THEN @
                                                     ELSE t + ttl * TicksPerSec,
                                      !.ttl = ttl])
    ELSE db

InMemory_set_expire(db, key, ttl, t) ==
    IF key \in DOMAIN db
    THEN Put(db, key, [db[key] EXCEPT !.expires_at = t + ttl * TicksPerSec,
                                      !.ttl = ttl])
    ELSE db

InMemory_set_expire_result(db, key) == IF key \in DOMAIN db THEN 1 ELSE 0

InMemory_get_expire(db, key, t) ==
    IF key \in DOMAIN db /\ db[key].expires_at # None
    THEN IF t > db[key].expires_at
         THEN None
         ELSE Max(0, (db[key].expires_at - t) \div TicksPerSec)
    ELSE None

\* InMemory.delete_expired_attributes, run without interleaving
InMemory_delete_expired_attributes(db, t) ==
    [x \in {k \in DOMAIN db : ~(db[k].expires_at # None /\ t > db[k].expires_at)}
        |-> db[x]]

\* InMemory.keys: the per-key test, against the clock value read at entry
InMemory_keys_valid(db, key, t) ==
    key \in DOMAIN db /\ (db[key].expires_at = None \/ t <= db[key].expires_at)

\* InMemory.batch_get: the live entries among keys, as a dict
InMemory_batch_get(db, ks, t) ==
    [k \in {x \in SeqRange(ks) : x \in DOMAIN db /\ ~is_expired(db[x], t)}
        |-> InMemory_to_value(db[k].value)]

\* a mapping value that is no Datatype: reading its .value raises
NotDatatype == "raw"
BatchValues == AllValues \cup {NotDatatype}

\* the exception of batch_set's read of key_values[key].value
batch_set_error(ks, kv) ==
    IF \E k \in SeqRange(ks) : kv[k] = NotDatatype THEN "AttributeError" ELSE "ok"

\* InMemory.batch_set: every key of key_values written with one clock reading;
\* the loop writes the keys in mapping order and ends at the first value whose
\* .value cannot be read; the locks are released and the exception leaves
RECURSIVE InMemory_batch_set(_, _, _, _)
InMemory_batch_set(db, ks, kv, t) ==
    IF ks = <<>> \/ kv[Head(ks)] = NotDatatype THEN db
    ELSE InMemory_batch_set(InMemory_set(db, Head(ks), kv[Head(ks)], t),
                            Tail(ks), kv, t)

\* ================================================================== SQLite
\* Adapter.to_bytes / Adapter.to_value: pickle.dumps / pickle.loads
to_bytes(data) == <<"pickle", data>>

to_value(data) == data[2]

\* SQL CURRENT_TIMESTAMP: the clock in whole seconds
CURRENT_TIMESTAMP(t) == t \div TicksPerSec

\* Adapter.get_expires_at(ttl): now + ttl formatted "%Y-%m-%d %H:%M:%S"
get_expires_at(ttl, t) == (t + ttl * TicksPerSec) \div TicksPerSec

\* a variant of the WHERE clause that compares with >= instead of >
NotExpiredSql_inclusive(row, t) ==
    row.expires_at = None \/ row.expires_at >= CURRENT_TIMESTAMP(t)

\* the WHERE clause of get / batch_get / exists / keys
\*   expires_at IS NULL OR expires_at > CURRENT_TIMESTAMP
NotExpiredSql(row, t) ==
    row.expires_at = None \/ row.expires_at > CURRENT_TIMESTAMP(t)

\* the table's CHECK (expires_at IS NULL OR expires_at > created_at)
CheckConstraint(row) ==
    row.expires_at = None \/ row.expires_at > row.created_at

EmptyTable == [rows |-> EmptyMap, seq |-> 0]

SQLite_get(tbl, key, t) ==
    IF key \in DOMAIN tbl.rows /\ NotExpiredSql(tbl.rows[key], t)
    THEN to_value(tbl.rows[key].value)
    ELSE NoneV

\* a variant of the upsert clause that leaves expires_at as it was
UpsertRow_keeps_expiry(row, value, t) ==
    [row EXCEPT !.value = to_bytes(value),
                !.created_at = CURRENT_TIMESTAMP(t)]

\* the row the ON CONFLICT(key) DO UPDATE clause of set leaves
UpsertRow(row, value, t) ==
    [row EXCEPT !.value = to_bytes(value),
                !.created_at = CURRENT_TIMESTAMP(t),
                !.expires_at = IF row.ttl # None
                               THEN CURRENT_TIMESTAMP(t) + row.ttl
                               ELSE None]

\* INSERT of a new row: AUTOINCREMENT id, created_at DEFAULT CURRENT_TIMESTAMP
InsertRow(tbl, key, value, t) ==
    [rows |-> Put(tbl.rows, key, [id |-> tbl.seq + 1,
                                  value |-> to_bytes(value),
                                  created_at |-> CURRENT_TIMESTAMP(t),
                                  expires_at |-> None,
                                  ttl |-> None]),
     seq |-> tbl.seq + 1]

\* the statement of SQLite.set; a row that fails the CHECK aborts the statement
SQLite_set(tbl, key, value, t) ==
    IF key \in DOMAIN tbl.rows
    THEN IF CheckConstraint(UpsertRow(tbl.rows[key], value, t))
         THEN [tbl EXCEPT !.rows = Put(tbl.rows, key, UpsertRow(tbl.rows[key], value, t))]
         ELSE tbl
    ELSE InsertRow(tbl, key, value, t)

SQLite_set_error(tbl, key, value, t) ==
    IF key \in DOMAIN tbl.rows /\ ~CheckConstraint(UpsertRow(tbl.rows[key], value, t))
    THEN "IntegrityError" ELSE "ok"

\* SELECT last_insert_rowid() after the statement of set
SQLite_set_rowid(tbl, key, lir) ==
    IF key \in DOMAIN tbl.rows THEN lir ELSE tbl.seq + 1

\* one row of batch_set's executemany: ON CONFLICT updates the value only
SQLite_batch_set_one(tbl, key, value, t) ==
    IF key \in DOMAIN tbl.rows
    THEN [tbl EXCEPT !.rows = Put(tbl.rows, key,
                                  [tbl.rows[key] EXCEPT !.value = to_bytes(value)])]
    ELSE InsertRow(tbl, key, value, t)

RECURSIVE SQLite_executemany(_, _, _, _)
SQLite_executemany(tbl, ks, kv, t) ==
    IF ks = <<>> THEN tbl
    ELSE SQLite_executemany(SQLite_batch_set_one(tbl, Head(ks), kv[Head(ks)], t),
                            Tail(ks), kv, t)

\* the parameter list is built from every v.value before the statement runs:
\* a value that is no Datatype raises there and nothing is written
SQLite_batch_set(tbl, ks, kv, t) ==
    IF batch_set_error(ks, kv) # "ok" THEN tbl
    ELSE SQLite_executemany(tbl, ks, kv, t)

\* SELECT key, value ... WHERE key in (keys) AND (expires_at IS NULL OR
\* expires_at > CURRENT_TIMESTAMP), as a dict
SQLite_batch_get(tbl, ks, t) ==
    [k \in {x \in SeqRange(ks) : x \in DOMAIN tbl.rows /\ NotExpiredSql(tbl.rows[x], t)}
        |-> to_value(tbl.rows[k].value)]

SQLite_delete(tbl, key) ==
    IF key \in DOMAIN tbl.rows THEN [tbl EXCEPT !.rows = Drop(tbl.rows, key)] ELSE tbl

SQLite_delete_result(tbl, key) == IF key \in DOMAIN tbl.rows THEN 1 ELSE 0

SQLite_exists(tbl, key, t) ==
    key \in DOMAIN tbl.rows /\ NotExpiredSql(tbl.rows[key], t)

SQLite_keys(tbl, t) == {k \in DOMAIN tbl.rows : NotExpiredSql(tbl.rows[k], t)}

\* the row UPDATE ... SET expires_at = ?, ttl = ? leaves
\* a variant of set_expire's UPDATE that sets expires_at alone
ExpireRow_without_ttl(row, ttl, t) ==
    [row EXCEPT !.expires_at = get_expires_at(ttl, t)]

ExpireRow(row, ttl, t) ==
    [row EXCEPT !.expires_at = get_expires_at(ttl, t), !.ttl = ttl]

SQLite_set_expire(tbl, key, ttl, t) ==
    IF key \in DOMAIN tbl.rows /\ CheckConstraint(ExpireRow(tbl.rows[key], ttl, t))
    THEN [tbl EXCEPT !.rows = Put(tbl.rows, key, ExpireRow(tbl.rows[key], ttl, t))]
    ELSE tbl

SQLite_set_expire_error(tbl, key, ttl, t) ==
    IF key \in DOMAIN tbl.rows /\ ~CheckConstraint(ExpireRow(tbl.rows[key], ttl, t))
    THEN "IntegrityError" ELSE "ok"

SQLite_set_expire_result(tbl, key) == IF key \in DOMAIN tbl.rows THEN 1 ELSE 0

\* SELECT ttl FROM table WHERE key = ?
SQLite_get_expire(tbl, key) ==
    IF key \in DOMAIN tbl.rows THEN tbl.rows[key].ttl ELSE None

\* DELETE ... WHERE expires_at IS NOT NULL AND expires_at <= CURRENT_TIMESTAMP
SQLite_delete_expired_attributes(tbl, t) ==
    [tbl EXCEPT !.rows =
        [x \in {k \in DOMAIN tbl.rows :
                    ~(tbl.rows[k].expires_at # None
                      /\ tbl.rows[k].expires_at <= CURRENT_TIMESTAMP(t))}
            |-> tbl.rows[x]]]

\* if not self._in_transaction: self._db.commit()
\*   the stored table after a write that left the connection's view as tbl
CommitUnlessInTransaction(tbl, flag, stored) == IF flag THEN stored ELSE tbl

\* a variant of commit that stores nothing
SQLite_commit_noop(view, stored) == stored

\* SQLite.commit: self._db.commit() -- the stored table afterwards
SQLite_commit(view, stored) == view

\* a variant of rollback that keeps the connection's view
SQLite_rollback_keeps(view, stored) == view

\* SQLite.rollback: self._db.rollback() -- the connection's view afterwards
SQLite_rollback(view, stored) == stored

\* ================================================================= Session
\* a variant of the ttl test that lets ttl = 0 through
Session_set_expire_rejects_negative(ttl) == ttl < 0

\* Session.set_expire: if ttl < 1: raise ValueError
Session_set_expire_rejects(ttl) == ttl < 1

\* a variant of the in-memory capability that advertises transactions
InMemory_get_support_transactions_yes == TRUE

InMemory_get_support_transactions == FALSE

\* the embedded-database adapter advertises transaction support
SQLite_get_support_transactions == TRUE

get_support_transactions ==
    IF backend = "InMemory" THEN InMemory_get_support_transactions
    ELSE SQLite_get_support_transactions

\* Session.with_transaction, the handler `except: await adapter.rollback()`:
\* what reaches the caller of the block when exception e was raised inside it.
\* The handler ends without a raise, so the context manager exits normally.
with_transaction_except(e) == "ok"

Exceptions == {"ValueError", "RuntimeError"}

NoTx == [snap |-> EmptyTable, begins |-> 0, commits |-> 0, rollbacks |-> 0,
         raised |-> "none", view |-> EmptyTable, ops |-> 0,
         outside |-> EmptyMap]

\* the block bookkeeping is kept while a block is open and dropped by the
\* first call made after it
TxAfterCall == IF pc = "inTx" THEN [tx EXCEPT !.ops = @ + 1] ELSE NoTx

\* a call may be made outside a block, or inside one that has calls left
MayCall == pc = "inTx" => tx.ops < MaxTxOps

\* non-empty key lists without repetition (the keys of a dict, in order)
KeySeqs ==
    {<<k>> : k \in AllKeys}
    \cup {sq \in {<<a, b>> : a \in AllKeys, b \in AllKeys} : sq[1] # sq[2]}

\* ================================================================== actions
\* number of client tasks incrementing the counter
NTasks == 2

\* the key the client tasks increment
CounterKey == "k1"

\* delete_interval arguments of start_ttl_deletion, in ticks
Intervals == {0, 1}

\* PyCache._ttl_worker = None.
\*   running: TTLWorker._running; task: where the _action task is ("none",
\*   "ready" to call the callback, "sweep" awaiting to_thread, "sleep");
\*   timer: ticks left of asyncio.sleep; interval: TTLWorker._interval;
\*   thread: whether a callback is executing in a pool thread ("idle", "run");
\*   wnow: the clock the in-memory callback read at entry;
\*   since: the clock when the worker was started;
\*   swept: outcome of the callback that ended at the current clock reading;
\*   orphaned: an earlier TTLWorker, replaced without a stop, is still looping;
\*   ntasks: the _action tasks of the current TTLWorker that have not ended
NoWorker == [running |-> FALSE, task |-> "none", timer |-> 0, interval |-> 0,
             thread |-> "idle", wnow |-> None, since |-> None, swept |-> "none",
             orphaned |-> FALSE, ntasks |-> 0]

\* the most futures one SQLiteSession creates
MaxReq == 4
\* concurrently open session scopes, and the most handles they create
NScopes == 2
MaxHandles == 3
\* threads that run a batch operation
NThreads == 2

\* the queue item that ends the executor thread
STOP_RUNNING_EXECUTOR == 0

\* SQLiteSession.__init__: an empty queue, a thread not yet started, no
\* connection; callbacks are the loop's pending call_soon_threadsafe calls
NewSQLiteSession ==
    [running |-> FALSE, operation_queue |-> <<>>, executor |-> "unstarted",
     payload |-> 0, db |-> "unset", handle |-> FALSE, callbacks |-> <<>>]

\* a thread outside a batch call.  Inside one: the call and its arguments,
\* how many of its locks it holds, how many keys its loop has handled, the
\* result dict of batch_get, and what the keys held when the loop began
NoBatch == [op |-> "none", ks |-> <<>>, kv |-> EmptyMap, held |-> 0, at |-> 0,
            seen |-> EmptyMap, before |-> EmptyMap, pc |-> "idle"]

\* the state after PyCache(adapter) is constructed; inSession: whether
\* `async with cache.session()` has been entered
InitState(inSession) ==
    /\ backend \in Backends
    /\ now = 0
    /\ shared_db = EmptyMap
    /\ working = EmptyTable
    /\ committed = EmptyTable
    /\ last_insert_rowid = 0
    /\ in_transaction = FALSE
    /\ pc = "idle"
    /\ tx = NoTx
    /\ ret = NoCall
    /\ kpc = "idle"
    /\ know = 0
    /\ ksnap = <<>>
    /\ kvalid = {}
    /\ connected = inSession
    /\ session = [open |-> inSession, connects |-> IF inSession THEN 1 ELSE 0,
                  closes |-> 0, raised |-> "none"]
    /\ ttl_worker = NoWorker
    /\ tasks = [i \in 1..NTasks |-> [pc |-> "start", val |-> 0]]
    /\ shared_locks = [k \in AllKeys |-> 0]
    /\ sq_session = NewSQLiteSession
    /\ futures = <<>>
    /\ clients = [i \in 1..NTasks |-> [pc |-> "idle", req |-> 0, err |-> "ok"]]
    /\ handles = <<>>
    /\ scopes = [sc \in 1..NScopes |-> [handle |-> 0, open |-> FALSE]]
    /\ batch_ops = [th \in 1..NThreads |-> NoBatch]

\* a session has been entered and the client is in its block
Init == InitState(TRUE)

\* the wall clock advances
Advance ==
    /\ now' = now + 1
    /\ ret' = IF ret.op \in {"set", "set_expire"} /\ ret.age + 1 < TicksPerSec
              THEN [ret EXCEPT !.age = @ + 1] ELSE NoCall
    /\ tx' = IF pc = "idle" /\ ret' = NoCall THEN NoTx ELSE tx
    /\ UNCHANGED <<backend, storeVars, pc, keysVars>>

Tick == now < MaxTime /\ Advance /\ UNCHANGED auxVars

TickTx == now < MaxTimeTx /\ Advance /\ UNCHANGED auxVars

Get(key) ==
    /\ MayCall
    /\ ret' = IF check_connected(connected)
              THEN Execute(Call("get", key, "", None,
                                IF backend = "InMemory"
                                THEN InMemory_get(shared_db, key, now)
                                ELSE SQLite_get(working, key, now),
                                None, FALSE, {}, "ok", TRUE))
              ELSE Refused("get", key, None)
    /\ tx' = TxAfterCall
    /\ UNCHANGED <<backend, now, storeVars, pc, keysVars, auxVars>>

Exists(key) ==
    /\ MayCall
    /\ ret' = IF check_connected(connected)
              THEN Execute(Call("exists", key, "", None, NoneV, None,
                                IF backend = "InMemory"
                                THEN InMemory_exists(shared_db, key, now)
                                ELSE SQLite_exists(working, key, now),
                                {}, "ok", TRUE))
              ELSE Refused("exists", key, None)
    /\ tx' = TxAfterCall
    /\ UNCHANGED <<backend, now, storeVars, pc, keysVars, auxVars>>

Set(key, value) ==
    /\ MayCall
    /\ IF ~check_connected(connected)
       THEN /\ ret' = [Refused("set", key, None) EXCEPT !.val = value]
            /\ UNCHANGED <<shared_db, working, committed, last_insert_rowid>>
       ELSE \/ /\ backend = "InMemory"
               /\ shared_db' = InMemory_set(shared_db, key, value, now)
               /\ ret' = Execute(Call("set", key, value, None, NoneV, 1, FALSE, {},
                                      "ok", TRUE))
               /\ UNCHANGED <<working, committed, last_insert_rowid>>
            \/ /\ backend = "SQLite"
               /\ key \in DOMAIN working.rows \/ working.seq < MaxId
               /\ working' = SQLite_set(working, key, value, now)
               /\ committed' = IF SQLite_set_error(working, key, value, now) = "ok"
                               THEN CommitUnlessInTransaction(working', in_transaction,
                                                              committed)
                               ELSE committed
               /\ last_insert_rowid' = SQLite_set_rowid(working, key, last_insert_rowid)
               /\ ret' = Execute(Call("set", key, value, None, NoneV, last_insert_rowid',
                                      FALSE, {},
                                      SQLite_set_error(working, key, value, now), TRUE))
               /\ UNCHANGED shared_db
    /\ tx' = TxAfterCall
    /\ UNCHANGED <<backend, now, in_transaction, pc, keysVars, auxVars>>

BatchSet(ks, kv) ==
    /\ MayCall
    /\ IF ~check_connected(connected)
       THEN /\ ret' = [Refused("batch_set", "", None) EXCEPT !.rk = SeqRange(ks),
                                                              !.kv = kv]
            /\ UNCHANGED <<shared_db, working, committed, last_insert_rowid>>
       ELSE /\ \/ /\ backend = "InMemory"
                  /\ shared_db' = InMemory_batch_set(shared_db, ks, kv, now)
                  /\ UNCHANGED <<working, committed, last_insert_rowid>>
               \/ /\ backend = "SQLite"
                  /\ working.seq + Cardinality(SeqRange(ks) \ DOMAIN working.rows) <= MaxId
                  /\ working' = SQLite_batch_set(working, ks, kv, now)
                  /\ committed' = IF batch_set_error(ks, kv) # "ok" THEN committed
                                   ELSE CommitUnlessInTransaction(working',
                                            in_transaction, committed)
                  /\ last_insert_rowid' = IF SeqRange(ks) \subseteq DOMAIN working.rows
                                             \/ batch_set_error(ks, kv) # "ok"
                                          THEN last_insert_rowid ELSE working'.seq
                  /\ UNCHANGED shared_db
            /\ ret' = [Execute(Call("batch_set", "", "", None, NoneV,
                                    IF batch_set_error(ks, kv) = "ok" THEN Len(ks)
                                    ELSE None,
                                    FALSE, SeqRange(ks), batch_set_error(ks, kv), TRUE))
                        EXCEPT !.kv = kv]
    /\ tx' = TxAfterCall
    /\ UNCHANGED <<backend, now, in_transaction, pc, keysVars, auxVars>>

BatchGet(ks) ==
    /\ MayCall
    /\ ret' = IF check_connected(connected)
              THEN [Execute(Call("batch_get", "", "", None, NoneV, None, FALSE,
                                 SeqRange(ks), "ok", TRUE))
                      EXCEPT !.kv = IF backend = "InMemory"
                                    THEN InMemory_batch_get(shared_db, ks, now)
                                    ELSE SQLite_batch_get(working, ks, now)]
              ELSE [Refused("batch_get", "", None) EXCEPT !.rk = SeqRange(ks)]
    /\ tx' = TxAfterCall
    /\ UNCHANGED <<backend, now, storeVars, pc, keysVars, auxVars>>

Delete(key) ==
    /\ MayCall
    /\ IF ~check_connected(connected)
       THEN /\ ret' = Refused("delete", key, None)
            /\ UNCHANGED <<shared_db, working, committed>>
       ELSE \/ /\ backend = "InMemory"
               /\ shared_db' = InMemory_delete(shared_db, key)
               /\ ret' = Execute(Call("delete", key, "", None, NoneV,
                                      InMemory_delete_result(shared_db, key),
                                      FALSE, {}, "ok", TRUE))
               /\ UNCHANGED <<working, committed>>
            \/ /\ backend = "SQLite"
               /\ working' = SQLite_delete(working, key)
               /\ committed' = CommitUnlessInTransaction(working', in_transaction,
                                                         committed)
               /\ ret' = Execute(Call("delete", key, "", None, NoneV,
                                      SQLite_delete_result(working, key),
                                      FALSE, {}, "ok", TRUE))
               /\ UNCHANGED shared_db
    /\ tx' = TxAfterCall
    /\ UNCHANGED <<backend, now, last_insert_rowid, in_transaction, pc, keysVars, auxVars>>

\* keys() run without interleaving
ListKeys ==
    /\ MayCall
    /\ ret' = IF check_connected(connected)
              THEN Execute(Call("keys", "", "", None, NoneV, None, FALSE,
                                IF backend = "InMemory"
                                THEN {k \in AllKeys :
                                         InMemory_keys_valid(shared_db, k, now)}
                                ELSE SQLite_keys(working, now),
                                "ok", TRUE))
              ELSE Refused("keys", "", None)
    /\ tx' = TxAfterCall
    /\ UNCHANGED <<backend, now, storeVars, pc, keysVars, auxVars>>

\* Session.set_expire(key, ttl)
SetExpire(key, ttl) ==
    /\ MayCall
    /\ IF Session_set_expire_rejects(ttl)
       THEN /\ ret' = Call("set_expire", key, "", ttl, NoneV, None, FALSE, {},
                           "ValueError", FALSE)
            /\ UNCHANGED <<shared_db, working, committed>>
       ELSE IF ~check_connected(connected)
       THEN /\ ret' = Refused("set_expire", key, ttl)
            /\ UNCHANGED <<shared_db, working, committed>>
       ELSE \/ /\ backend = "InMemory"
               /\ shared_db' = InMemory_set_expire(shared_db, key, ttl, now)
               /\ ret' = Execute(Call("set_expire", key, "", ttl, NoneV,
                                      InMemory_set_expire_result(shared_db, key),
                                      FALSE, {}, "ok", TRUE))
               /\ UNCHANGED <<working, committed>>
            \/ /\ backend = "SQLite"
               /\ working' = SQLite_set_expire(working, key, ttl, now)
               /\ committed' = IF SQLite_set_expire_error(working, key, ttl, now) = "ok"
                               THEN CommitUnlessInTransaction(working', in_transaction,
                                                              committed)
                               ELSE committed
               /\ ret' = Execute(Call("set_expire", key, "", ttl, NoneV,
                              IF SQLite_set_expire_error(working, key, ttl, now) = "ok"
                              THEN SQLite_set_expire_result(working, key) ELSE None,
                              FALSE, {},
                              SQLite_set_expire_error(working, key, ttl, now), TRUE))
               /\ UNCHANGED shared_db
    /\ tx' = TxAfterCall
    /\ UNCHANGED <<backend, now, last_insert_rowid, in_transaction, pc, keysVars, auxVars>>

GetExpire(key) ==
    /\ MayCall
    /\ ret' = IF check_connected(connected)
              THEN Execute(Call("get_expire", key, "", None, NoneV,
                                IF backend = "InMemory"
                                THEN InMemory_get_expire(shared_db, key, now)
                                ELSE SQLite_get_expire(working, key),
                                FALSE, {}, "ok", TRUE))
              ELSE Refused("get_expire", key, None)
    /\ tx' = TxAfterCall
    /\ UNCHANGED <<backend, now, storeVars, pc, keysVars, auxVars>>

\* PyCache.delete_expired_attributes(), called while no block is open.  The
\* in-memory adapter tests its connection flag first; the database adapter
\* opens a connection of its own.
Sweep ==
    /\ pc = "idle"
    /\ IF backend = "InMemory" /\ ~check_connected(connected)
       THEN /\ ret' = Refused("delete_expired_attributes", "", None)
            /\ UNCHANGED <<shared_db, working, committed>>
       ELSE /\ \/ /\ backend = "InMemory"
                  /\ shared_db' = InMemory_delete_expired_attributes(shared_db, now)
                  /\ UNCHANGED <<working, committed>>
               \/ /\ backend = "SQLite"
                  /\ committed' = SQLite_delete_expired_attributes(committed, now)
                  /\ working' = committed'
                  /\ UNCHANGED shared_db
            /\ ret' = Call("delete_expired_attributes", "", "", None, NoneV, None,
                           FALSE, {}, "ok", TRUE)
    /\ tx' = NoTx
    /\ UNCHANGED <<backend, now, last_insert_rowid, in_transaction, pc, keysVars, auxVars>>

\* SQLite.begin: cursor.execute("BEGIN") on a connection that has a
\* transaction open raises sqlite3.OperationalError
SQLite_begin_error(flag) == IF flag THEN "OperationalError" ELSE "ok"

\* Session.with_transaction(), entry: capability test, then adapter.begin();
\* an error of begin() is raised before the try block is entered
WithTransactionEnter ==
    /\ pc = "idle"
    /\ IF ~get_support_transactions
       THEN /\ ret' = Call("with_transaction", "", "", None, NoneV, None, FALSE, {},
                           "NotImplementedError", FALSE)
            /\ tx' = NoTx
            /\ UNCHANGED <<in_transaction, pc>>
       ELSE IF ~check_connected(connected)
       THEN /\ ret' = Refused("begin", "", None)
            /\ tx' = NoTx
            /\ UNCHANGED <<in_transaction, pc>>
       ELSE IF SQLite_begin_error(in_transaction) # "ok"
       THEN /\ ret' = Execute(Call("begin", "", "", None, NoneV, None, FALSE, {},
                                   SQLite_begin_error(in_transaction), TRUE))
            /\ tx' = NoTx
            /\ UNCHANGED <<in_transaction, pc>>
       ELSE /\ in_transaction' = TRUE
            /\ pc' = "inTx"
            /\ tx' = [NoTx EXCEPT !.snap = committed, !.begins = 1]
            /\ ret' = Execute(Call("begin", "", "", None, NoneV, None, FALSE, {},
                                   "ok", TRUE))
    /\ UNCHANGED <<backend, now, shared_db, working, committed, last_insert_rowid,
                   keysVars, auxVars>>

\* the block ends normally: adapter.commit()
BlockExit ==
    /\ pc = "inTx"
    /\ in_transaction' = FALSE
    /\ committed' = SQLite_commit(working, committed)
    /\ pc' = "idle"
    /\ tx' = [tx EXCEPT !.commits = @ + 1, !.view = working]
    /\ ret' = Call("with_transaction", "", "", None, NoneV, None, FALSE, {}, "ok", TRUE)
    /\ UNCHANGED <<backend, now, shared_db, working, last_insert_rowid, keysVars, auxVars>>

\* exception e is raised inside the block: adapter.rollback()
BlockRaise(e) ==
    /\ pc = "inTx"
    /\ in_transaction' = FALSE
    /\ working' = SQLite_rollback(working, committed)
    /\ pc' = "idle"
    /\ tx' = [tx EXCEPT !.rollbacks = @ + 1, !.raised = e, !.view = working]
    /\ ret' = Call("with_transaction", "", "", None, NoneV, None, FALSE, {},
                   with_transaction_except(e), TRUE)
    /\ UNCHANGED <<backend, now, shared_db, committed, last_insert_rowid, keysVars, auxVars>>

Writes ==
    \/ \E k \in AllKeys, v \in AllValues : Set(k, v)
    \/ \E ks \in KeySeqs : \E kv \in [SeqRange(ks) -> AllValues] : BatchSet(ks, kv)
    \/ \E k \in AllKeys : Delete(k)
    \/ \E k \in AllKeys, ttl \in TTLArgs : SetExpire(k, ttl)
    \/ Sweep

Next ==
    \/ Tick
    \/ Writes
    \/ \E k \in AllKeys : Get(k)
    \/ \E k \in AllKeys : Exists(k)
    \/ \E ks \in KeySeqs : BatchGet(ks)
    \/ ListKeys
    \/ \E k \in AllKeys : GetExpire(k)

Spec == Init /\ [][Next]_vars

\* the embedded-database session with with_transaction blocks
InitTx == Init /\ backend = "SQLite"

NextTx ==
    \/ TickTx
    \/ Writes
    \/ \E k \in AllKeys : Get(k)
    \/ WithTransactionEnter
    \/ BlockExit
    \/ \E e \in Exceptions : BlockRaise(e)

SpecTx == InitTx /\ [][NextTx]_vars

\* a second task of the same event loop calls session.set(key, value) on the
\* shared session, outside any block, while the first task is suspended
\* inside its with_transaction block: SQLite.set on the one connection, with
\* the session's _in_transaction flag as the first task left it.  tx.outside
\* keeps the rows such calls stored.
OtherTaskSet(key, value) ==
    /\ pc = "inTx"
    /\ check_connected(connected)
    /\ key \in DOMAIN working.rows \/ working.seq < MaxId
    /\ working' = SQLite_set(working, key, value, now)
    /\ committed' = IF SQLite_set_error(working, key, value, now) = "ok"
                    THEN CommitUnlessInTransaction(working', in_transaction, committed)
                    ELSE committed
    /\ last_insert_rowid' = SQLite_set_rowid(working, key, last_insert_rowid)
    /\ ret' = Execute(Call("set", key, value, None, NoneV, last_insert_rowid',
                           FALSE, {}, SQLite_set_error(working, key, value, now), TRUE))
    /\ tx' = IF ret'.err = "ok"
             THEN [tx EXCEPT !.outside = Put(@, key, working'.rows[key])]
             ELSE tx
    /\ UNCHANGED <<backend, now, shared_db, in_transaction, pc, keysVars, auxVars>>

NextShared ==
    \/ TickTx
    \/ \E k \in AllKeys, v \in AllValues : Set(k, v)
    \/ \E k \in AllKeys : Get(k)
    \/ WithTransactionEnter
    \/ BlockExit
    \/ \E e \in Exceptions : BlockRaise(e)
    \/ \E k \in AllKeys, v \in AllValues : OtherTaskSet(k, v)

SpecShared == InitTx /\ [][NextShared]_vars

\* ---------------------------------- begin / commit / rollback called directly
\* handle.begin(): a no-op on the in-memory adapter; on the database handle
\* _in_transaction = True, then BEGIN
AdapterBegin ==
    /\ pc = "idle"
    /\ IF backend = "InMemory"
       THEN /\ ret' = Call("begin", "", "", None, NoneV, None, FALSE, {}, "ok", TRUE)
            /\ UNCHANGED in_transaction
       ELSE IF ~check_connected(connected)
       THEN /\ ret' = Refused("begin", "", None)
            /\ UNCHANGED in_transaction
       ELSE /\ in_transaction' = TRUE
            /\ ret' = Execute(Call("begin", "", "", None, NoneV, None, FALSE, {},
                                   SQLite_begin_error(in_transaction), TRUE))
    /\ tx' = NoTx
    /\ UNCHANGED <<backend, now, shared_db, working, committed, last_insert_rowid, pc,
                   keysVars, auxVars>>

\* handle.commit(): _in_transaction = False, then the engine's commit, which
\* does nothing and raises nothing when no transaction is open
AdapterCommit ==
    /\ pc = "idle"
    /\ IF backend = "InMemory"
       THEN /\ ret' = Call("commit", "", "", None, NoneV, None, FALSE, {}, "ok", TRUE)
            /\ UNCHANGED <<in_transaction, committed>>
       ELSE IF ~check_connected(connected)
       THEN /\ ret' = Refused("commit", "", None)
            /\ UNCHANGED <<in_transaction, committed>>
       ELSE /\ in_transaction' = FALSE
            /\ committed' = SQLite_commit(working, committed)
            /\ ret' = Execute(Call("commit", "", "", None, NoneV, None, FALSE, {},
                                   "ok", TRUE))
    /\ tx' = NoTx
    /\ UNCHANGED <<backend, now, shared_db, working, last_insert_rowid, pc,
                   keysVars, auxVars>>

\* handle.rollback(): _in_transaction = False, then the engine's rollback,
\* which does nothing and raises nothing when no transaction is open
AdapterRollback ==
    /\ pc = "idle"
    /\ IF backend = "InMemory"
       THEN /\ ret' = Call("rollback", "", "", None, NoneV, None, FALSE, {}, "ok", TRUE)
            /\ UNCHANGED <<in_transaction, working>>
       ELSE IF ~check_connected(connected)
       THEN /\ ret' = Refused("rollback", "", None)
            /\ UNCHANGED <<in_transaction, working>>
       ELSE /\ in_transaction' = FALSE
            /\ working' = SQLite_rollback(working, committed)
            /\ ret' = Execute(Call("rollback", "", "", None, NoneV, None, FALSE, {},
                                   "ok", TRUE))
    /\ tx' = NoTx
    /\ UNCHANGED <<backend, now, shared_db, committed, last_insert_rowid, pc,
                   keysVars, auxVars>>

NextCtl ==
    \/ TickTx
    \/ \E k \in AllKeys, v \in AllValues : Set(k, v)
    \/ \E k \in AllKeys : Delete(k)
    \/ \E k \in AllKeys : Get(k)
    \/ WithTransactionEnter
    \/ BlockExit
    \/ \E e \in Exceptions : BlockRaise(e)
    \/ AdapterBegin
    \/ AdapterCommit
    \/ AdapterRollback

SpecCtl == Init /\ [][NextCtl]_vars

\* --------------------------------------------- sessions and the TTL worker
\* InMemory.count_expired_keys
InMemory_count_expired_keys(db, t) ==
    Cardinality({k \in DOMAIN db : db[k].expires_at # None /\ t > db[k].expires_at})

\* SELECT COUNT(*) ... WHERE expires_at IS NOT NULL AND expires_at <= CURRENT_TIMESTAMP
SQLite_count_expired_keys(tbl, t) ==
    Cardinality({k \in DOMAIN tbl.rows :
                    tbl.rows[k].expires_at # None
                    /\ tbl.rows[k].expires_at <= CURRENT_TIMESTAMP(t)})

\* `async with cache.session()`, entry: connect(), create(), create_index().
\* The in-memory adapter connects itself; the database adapter returns a fresh
\* SQLiteSession with its own engine connection.
Connect ==
    /\ ~session.open
    /\ pc = "idle"
    /\ connected' = TRUE
    /\ session' = [open |-> TRUE, connects |-> 1, closes |-> 0, raised |-> "none"]
    /\ working' = committed
    /\ last_insert_rowid' = 0
    /\ in_transaction' = FALSE
    /\ ret' = Call("connect", "", "", None, NoneV, None, FALSE, {}, "ok", TRUE)
    /\ tx' = NoTx
    /\ UNCHANGED <<backend, now, shared_db, committed, pc, keysVars,
                   ttl_worker, tasks, shared_locks, concVars>>

\* a variant of close that leaves the connection flag set
close_keeps(flag) == flag

\* InMemory.close / SQLite.close (engine close, stop sentinel, join): the
\* connection flag afterwards
close(flag) == FALSE

\* the session block ends normally: `finally: await adapter.close()`
SessionExit ==
    /\ session.open
    /\ pc = "idle"
    /\ connected' = close(connected)
    /\ session' = [session EXCEPT !.open = FALSE, !.closes = @ + 1]
    /\ ret' = Call("session", "", "", None, NoneV, None, FALSE, {}, "ok", TRUE)
    /\ tx' = NoTx
    /\ UNCHANGED <<backend, now, storeVars, pc, keysVars, ttl_worker, tasks, shared_locks, concVars>>

\* exception e is raised inside the session block: the finally clause closes
\* the handle and e goes on to the caller
SessionRaise(e) ==
    /\ session.open
    /\ pc = "idle"
    /\ connected' = close(connected)
    /\ session' = [session EXCEPT !.open = FALSE, !.closes = @ + 1, !.raised = e]
    /\ ret' = Call("session", "", "", None, NoneV, None, FALSE, {}, e, TRUE)
    /\ tx' = NoTx
    /\ UNCHANGED <<backend, now, storeVars, pc, keysVars, ttl_worker, tasks, shared_locks, concVars>>

\* PyCache.count_expired_keys()
CountExpired ==
    /\ pc = "idle"
    /\ ret' = IF backend = "InMemory"
              THEN IF check_connected(connected)
                   THEN Call("count_expired_keys", "", "", None, NoneV,
                             InMemory_count_expired_keys(shared_db, now),
                             FALSE, {}, "ok", TRUE)
                   ELSE Refused("count_expired_keys", "", None)
              ELSE Call("count_expired_keys", "", "", None, NoneV,
                        SQLite_count_expired_keys(committed, now), FALSE, {}, "ok", TRUE)
    /\ tx' = NoTx
    /\ UNCHANGED <<backend, now, storeVars, pc, keysVars, auxVars>>

\* TTLWorker.stop(): the task is cancelled and awaited; none of the worker's
\* tasks is alive when it returns
TTLWorker_stop_tasks(n) == 0

\* a start() that creates its task without stopping the one that is there
TTLWorker_start_tasks_no_stop(n) == n + 1

\* TTLWorker.start(): `await self.stop()`, then create_task
TTLWorker_start_tasks(n) == TTLWorker_stop_tasks(n) + 1

\* PyCache.start_ttl_deletion(delete_interval): a new TTLWorker replaces
\* _ttl_worker and is started (start() stops only the new object, which has
\* no task); a worker that was looping keeps looping
StartTtlDeletion(i) ==
    /\ pc = "idle"
    /\ ttl_worker' = IF i <= 0 THEN ttl_worker
                     ELSE [ttl_worker EXCEPT !.running = TRUE,
                                             !.task = "ready",
                                             !.timer = 0,
                                             !.interval = i,
                                             !.since = now,
                                             !.orphaned = @ \/ ttl_worker.task # "none",
                                             !.ntasks = TTLWorker_start_tasks(0)]
    /\ ret' = Call("start_ttl_deletion", "", "", i, NoneV, None, FALSE, {}, "ok", FALSE)
    /\ tx' = NoTx
    /\ UNCHANGED <<backend, now, storeVars, pc, keysVars, connected, session, tasks,
                   shared_locks, concVars>>

\* PyCache.stop_ttl_deletion() -> TTLWorker.stop(): _running = False, the task
\* is cancelled and awaited.  A callback executing in a pool thread is not
\* interrupted by the cancellation: the task ends with CancelledError at once.
StopTtlDeletion ==
    /\ pc = "idle"
    /\ ttl_worker' = [ttl_worker EXCEPT !.running = FALSE, !.task = "none",
                                        !.timer = 0, !.since = None,
                                        !.ntasks = TTLWorker_stop_tasks(@)]
    /\ ret' = Call("stop_ttl_deletion", "", "", None, NoneV, None, FALSE, {}, "ok", FALSE)
    /\ tx' = NoTx
    /\ UNCHANGED <<backend, now, storeVars, pc, keysVars, connected, session, tasks,
                   shared_locks, concVars>>

\* TTLWorker.start() called again on the worker the facade holds: stop() ends
\* the task that is there, then a new task is created.  A callback executing
\* in a pool thread goes on.  ret.rn: the tasks alive when start() was called.
TTLWorkerStart ==
    /\ pc = "idle"
    /\ ttl_worker.interval > 0
    /\ ttl_worker' = [ttl_worker EXCEPT !.running = TRUE,
                                        !.task = "ready",
                                        !.timer = 0,
                                        !.since = now,
                                        !.ntasks = TTLWorker_start_tasks(@)]
    /\ ret' = Call("TTLWorker.start", "", "", None, NoneV, ttl_worker.ntasks, FALSE, {},
                   "ok", FALSE)
    /\ tx' = NoTx
    /\ UNCHANGED <<backend, now, storeVars, pc, keysVars, connected, session, tasks,
                   shared_locks, concVars>>

\* a loop whose try/except is around the `while`: the error ends the task
action_except_ends_task(w, e) ==
    [w EXCEPT !.task = "none", !.ntasks = 0, !.swept = e]

\* TTLWorker._action: `except Exception` inside the loop, then
\* `await asyncio.sleep(self._interval)`
action_except(w, e) ==
    [w EXCEPT !.task = "sleep", !.timer = w.interval, !.swept = e]

\* TTLWorker._action, loop head: `await asyncio.to_thread(self._callback)`.
\* The in-memory callback tests the facade adapter's connection flag and reads
\* the clock; ValueError is caught in the loop, which goes to sleep.
WorkerSweepStart ==
    /\ ttl_worker.running
    /\ ttl_worker.task = "ready" \/ (ttl_worker.task = "sleep" /\ ttl_worker.timer = 0)
    /\ ttl_worker.thread = "idle"
    /\ ttl_worker' = IF backend = "InMemory" /\ ~check_connected(connected)
                     THEN action_except(ttl_worker, ConnectionClosed)
                     ELSE [ttl_worker EXCEPT !.task = "sweep",
                                             !.thread = "run",
                                             !.wnow = IF backend = "InMemory"
                                                      THEN now ELSE None]
    /\ UNCHANGED <<backend, now, storeVars, pc, tx, ret, keysVars, connected, session,
                   tasks, shared_locks, concVars>>

\* the callback in the pool thread finishes: expired entries are deleted (the
\* database callback through a connection of its own; no transaction block is
\* open where the worker runs).  A task still awaiting it goes on to
\* `await asyncio.sleep(self._interval)`.
WorkerSweepEnd ==
    /\ ttl_worker.thread = "run"
    /\ \/ /\ backend = "InMemory"
          /\ shared_db' = InMemory_delete_expired_attributes(shared_db, ttl_worker.wnow)
          /\ UNCHANGED <<working, committed>>
       \/ /\ backend = "SQLite"
          /\ committed' = SQLite_delete_expired_attributes(committed, now)
          /\ working' = committed'
          /\ UNCHANGED shared_db
    /\ ttl_worker' = [ttl_worker EXCEPT
                         !.thread = "idle",
                         !.wnow = None,
                         !.swept = "ok",
                         !.task = IF @ = "sweep" THEN "sleep" ELSE @,
                         !.timer = IF ttl_worker.task = "sweep"
                                   THEN ttl_worker.interval ELSE @]
    /\ UNCHANGED <<backend, now, last_insert_rowid, in_transaction, pc, tx, ret,
                   keysVars, connected, session, tasks, shared_locks, concVars>>

\* a sweep of a worker that was replaced without being stopped
OrphanSweep ==
    /\ ttl_worker.orphaned
    /\ \/ /\ backend = "InMemory"
          /\ shared_db' = IF check_connected(connected)
                          THEN InMemory_delete_expired_attributes(shared_db, now)
                          ELSE shared_db
          /\ UNCHANGED <<working, committed>>
       \/ /\ backend = "SQLite"
          /\ committed' = SQLite_delete_expired_attributes(committed, now)
          /\ working' = committed'
          /\ UNCHANGED shared_db
    /\ UNCHANGED <<backend, now, last_insert_rowid, in_transaction, pc, tx, ret,
                   keysVars, auxVars>>

\* the clock advances by one tick: a sleeping task's timer runs down.  The
\* event loop runs a task that is due, and a callback takes less than a tick.
TickW ==
    /\ now < MaxTimeW
    /\ ttl_worker.thread = "idle"
    /\ ttl_worker.running => /\ ttl_worker.task # "ready"
                             /\ ttl_worker.task = "sleep" => ttl_worker.timer > 0
    /\ Advance
    /\ ttl_worker' = [ttl_worker EXCEPT !.timer = IF @ > 0 THEN @ - 1 ELSE 0,
                                        !.swept = "none"]
    /\ UNCHANGED <<connected, session, tasks, shared_locks, concVars>>

InitWorker == InitState(FALSE)

NextWorker ==
    \/ TickW
    \/ Connect
    \/ SessionExit
    \/ Set(CounterKey, "v1")
    \/ SetExpire(CounterKey, 1)
    \/ CountExpired
    \/ \E i \in Intervals : StartTtlDeletion(i)
    \/ StopTtlDeletion
    \/ TTLWorkerStart
    \/ WorkerSweepStart
    \/ WorkerSweepEnd
    \/ OrphanSweep

SpecWorker == InitWorker /\ [][NextWorker]_vars

\* --------------------------------------- calls inside and outside a session
\* batch writes whose mapping may hold a value that cannot be written
NextBatchSet ==
    \/ TickTx
    \/ \E ks \in KeySeqs : \E kv \in [SeqRange(ks) -> BatchValues] : BatchSet(ks, kv)
    \/ \E ks \in KeySeqs : BatchGet(ks)
    \/ \E k \in AllKeys : Delete(k)

SpecBatchSet == Init /\ [][NextBatchSet]_vars

InitSession == InitState(FALSE)

NextSession ==
    \/ TickTx
    \/ Connect
    \/ SessionExit
    \/ \E e \in Exceptions : SessionRaise(e)
    \/ Writes
    \/ \E k \in AllKeys : Get(k)
    \/ \E k \in AllKeys : Exists(k)
    \/ \E ks \in KeySeqs : BatchGet(ks)
    \/ ListKeys
    \/ \E k \in AllKeys : GetExpire(k)

SpecSession == InitSession /\ [][NextSession]_vars

\* ------------------------------------ concurrent read-modify-write tasks
\* Each task runs `v = await get(k); await set(k, v + 1)` on the shared
\* in-memory store from a thread of its own.  get and set each take the key's
\* lock (_get_lock, `with lock:`) for their own body only.

\* the counter is stored as 0 before any task starts
RmwSetup ==
    /\ \A i \in 1..NTasks : tasks[i].pc = "start"
    /\ Set(CounterKey, 0)

\* InMemory.get, `with lock:` entered
RmwGetLock(i) ==
    /\ tasks[i].pc = "start"
    /\ CounterKey \in DOMAIN shared_db
    /\ check_connected(connected)
    /\ shared_locks[CounterKey] = 0
    /\ shared_locks' = [shared_locks EXCEPT ![CounterKey] = i]
    /\ tasks' = [tasks EXCEPT ![i].pc = "get"]
    /\ UNCHANGED <<backend, now, storeVars, pc, tx, ret, keysVars, connected, session,
                   ttl_worker, concVars>>

\* InMemory.get, body and lock release: the task has its value v
RmwGetRead(i) ==
    /\ tasks[i].pc = "get"
    /\ shared_locks' = [shared_locks EXCEPT ![CounterKey] = 0]
    /\ tasks' = [tasks EXCEPT ![i].pc = "got",
                              ![i].val = InMemory_get(shared_db, CounterKey, now)]
    /\ UNCHANGED <<backend, now, storeVars, pc, tx, ret, keysVars, connected, session,
                   ttl_worker, concVars>>

\* InMemory.set, `with lock:` entered
RmwSetLock(i) ==
    /\ tasks[i].pc = "got"
    /\ check_connected(connected)
    /\ shared_locks[CounterKey] = 0
    /\ shared_locks' = [shared_locks EXCEPT ![CounterKey] = i]
    /\ tasks' = [tasks EXCEPT ![i].pc = "set"]
    /\ UNCHANGED <<backend, now, storeVars, pc, tx, ret, keysVars, connected, session,
                   ttl_worker, concVars>>

\* InMemory.set(k, v + 1), body and lock release
RmwSetWrite(i) ==
    /\ tasks[i].pc = "set"
    /\ shared_db' = InMemory_set(shared_db, CounterKey, tasks[i].val + 1, now)
    /\ shared_locks' = [shared_locks EXCEPT ![CounterKey] = 0]
    /\ tasks' = [tasks EXCEPT ![i].pc = "done"]
    /\ UNCHANGED <<backend, now, working, committed, last_insert_rowid, in_transaction,
                   pc, tx, ret, keysVars, connected, session, ttl_worker, concVars>>

InitRmw == Init /\ backend = "InMemory"

NextRmw ==
    \/ Tick
    \/ RmwSetup
    \/ \E i \in 1..NTasks : RmwGetLock(i)
    \/ \E i \in 1..NTasks : RmwGetRead(i)
    \/ \E i \in 1..NTasks : RmwSetLock(i)
    \/ \E i \in 1..NTasks : RmwSetWrite(i)

SpecRmw == InitRmw /\ [][NextRmw]_vars

\* ------------------------------------------- the SQLiteSession request queue
\* One SQLiteSession used by NTasks tasks of one event loop.  A future has the
\* kind of its closure, its owner, a phase (queued, running, done: the closure
\* has returned and its callback is scheduled, resolved), the number of times
\* it was resolved and the outcome it was resolved with.
ClosureKinds == {"op", "raise"}
ClosureErrors == {"IntegrityError", "ProgrammingError", "CloseError"}

\* what a closure does on the engine connection: its outcome
action_outcome(kind, db, closeRaises) ==
    CASE kind = "connector" -> "connection"
      [] kind = "close" -> IF closeRaises THEN "CloseError" ELSE "None"
      [] kind = "op" -> IF db = "open" THEN "result" ELSE "ProgrammingError"
      [] kind = "raise" -> IF db = "open" THEN "IntegrityError" ELSE "ProgrammingError"

\* and the state it leaves the engine connection in
action_db(kind, db, closeRaises) ==
    CASE kind = "connector" -> "open"
      [] kind = "close" -> IF closeRaises THEN db ELSE "closed"
      [] OTHER -> db

\* a queue that hands out its newest item
SimpleQueue_get_lifo(q) == Len(q)

\* SimpleQueue.get(): the position of the item handed out, the oldest
SimpleQueue_get(q) == 1

\* a worker loop whose handler is outside the loop: an error ends the thread
executor_after_error_exits(outcome) ==
    IF outcome \in ClosureErrors THEN "exited" ELSE "waiting"

\* _run_executor after a closure: the try/except is inside `while True`
executor_after(outcome) == "waiting"

\* a close() that does not wait for the thread
join_returns_at_once(state) == TRUE

\* Thread.join() returns when the thread is not alive
join_returns(state) == state \notin {"waiting", "running"}

\* the event loop runs a task or a callback only while no task blocks it in
\* Thread.join()
LoopFree == \A i \in 1..NTasks : clients[i].pc # "join"

NewFuture(kind, i) ==
    [kind |-> kind, owner |-> i, phase |-> "queued", resolutions |-> 0,
     outcome |-> "pending", result |-> "pending"]

\* _execute past its `if not self._running` test: a future and a payload
Enqueue(kind, i) ==
    /\ futures' = Append(futures, NewFuture(kind, i))
    /\ sq_session' = [sq_session EXCEPT
                         !.operation_queue = Append(@, Len(futures) + 1)]

queueFrame == <<backend, now, storeVars, pc, tx, ret, keysVars, connected, session,
                ttl_worker, tasks, shared_locks, handles, scopes, batch_ops>>

\* SQLiteSession.connect up to its await
QConnect(i) ==
    /\ LoopFree
    /\ clients[i].pc = "idle"
    /\ sq_session.executor = "unstarted"
    /\ futures' = Append(futures, NewFuture("connector", i))
    /\ sq_session' = [sq_session EXCEPT !.running = TRUE, !.executor = "waiting",
                                        !.operation_queue = Append(@, Len(futures) + 1)]
    /\ clients' = [clients EXCEPT ![i].pc = "connect_await", ![i].req = Len(futures) + 1]
    /\ UNCHANGED queueFrame

\* a decorated operation called by task i: _execute up to its await, or its
\* ValueError on a handle that is not running
QSubmit(i, kind) ==
    /\ LoopFree
    /\ clients[i].pc = "idle"
    /\ sq_session.handle
    /\ IF ~sq_session.running
       THEN /\ clients' = [clients EXCEPT ![i].err = ConnectionClosed]
            /\ UNCHANGED <<sq_session, futures>>
       ELSE /\ Len(futures) < MaxReq
            /\ Enqueue(kind, i)
            /\ clients' = [clients EXCEPT ![i].pc = "await", ![i].req = Len(futures) + 1]
    /\ UNCHANGED queueFrame

\* _run_executor: queue.get() returns; the sentinel ends the thread
ExecutorGet ==
    /\ sq_session.executor = "waiting"
    /\ sq_session.operation_queue # <<>>
    /\ LET q == sq_session.operation_queue
           n == SimpleQueue_get(q)
           rest == SubSeq(q, 1, n - 1) \o SubSeq(q, n + 1, Len(q))
       IN  IF q[n] = STOP_RUNNING_EXECUTOR
           THEN /\ sq_session' = [sq_session EXCEPT !.operation_queue = rest,
                                                    !.executor = "exited",
                                                    !.payload = STOP_RUNNING_EXECUTOR]
                /\ UNCHANGED futures
           ELSE /\ sq_session' = [sq_session EXCEPT !.operation_queue = rest,
                                                    !.executor = "running",
                                                    !.payload = q[n]]
                /\ futures' = [futures EXCEPT ![q[n]].phase = "running"]
    /\ UNCHANGED <<clients, queueFrame>>

\* _run_executor: payload.action() returns or raises and the matching
\* callback is handed to the loop with call_soon_threadsafe
ExecutorRun(closeRaises) ==
    /\ sq_session.executor = "running"
    /\ LET id == sq_session.payload
           kind == futures[id].kind
           outcome == action_outcome(kind, sq_session.db, closeRaises)
       IN  /\ closeRaises => kind = "close"
           /\ futures' = [futures EXCEPT ![id].phase = "done", ![id].outcome = outcome]
           /\ sq_session' = [sq_session EXCEPT
                                !.db = action_db(kind, @, closeRaises),
                                !.executor = executor_after(outcome),
                                !.callbacks = Append(@, id)]
    /\ UNCHANGED <<clients, queueFrame>>

\* the loop runs set_future_result / set_future_exception
LoopCallback ==
    /\ LoopFree
    /\ sq_session.callbacks # <<>>
    /\ LET id == Head(sq_session.callbacks)
       IN  futures' = [futures EXCEPT ![id].phase = "resolved",
                                      ![id].resolutions = @ + 1,
                                      ![id].result = futures[id].outcome]
    /\ sq_session' = [sq_session EXCEPT !.callbacks = Tail(@)]
    /\ UNCHANGED <<clients, queueFrame>>

\* `await future` returns or raises in task i.  In connect the result becomes
\* self._db; in close the finally clause runs _stop() and reaches join().
QResume(i) ==
    /\ LoopFree
    /\ clients[i].pc \in {"await", "connect_await", "close_await"}
    /\ futures[clients[i].req].phase = "resolved"
    /\ LET res == futures[clients[i].req].result
           e == IF res \in ClosureErrors THEN res ELSE "ok"
       IN  CASE clients[i].pc = "await" ->
                  /\ clients' = [clients EXCEPT ![i].pc = "idle", ![i].err = e]
                  /\ UNCHANGED sq_session
             [] clients[i].pc = "connect_await" ->
                  /\ clients' = [clients EXCEPT ![i].pc = "idle", ![i].err = e]
                  /\ sq_session' = [sq_session EXCEPT !.handle = TRUE]
             [] clients[i].pc = "close_await" ->
                  /\ clients' = [clients EXCEPT ![i].pc = "join", ![i].err = e]
                  /\ sq_session' = [sq_session EXCEPT
                                       !.running = FALSE,
                                       !.operation_queue = Append(@, STOP_RUNNING_EXECUTOR)]
    /\ UNCHANGED <<futures, queueFrame>>

\* close() called by task i: _execute(self._db.close) up to its await; on a
\* handle that is not running _execute raises and the finally clause runs
QClose(i) ==
    /\ LoopFree
    /\ clients[i].pc = "idle"
    /\ sq_session.handle
    /\ IF ~sq_session.running
       THEN /\ clients' = [clients EXCEPT ![i].pc = "join", ![i].err = ConnectionClosed]
            /\ sq_session' = [sq_session EXCEPT
                                 !.operation_queue = Append(@, STOP_RUNNING_EXECUTOR)]
            /\ UNCHANGED futures
       ELSE /\ Len(futures) < MaxReq
            /\ Enqueue("close", i)
            /\ clients' = [clients EXCEPT ![i].pc = "close_await",
                                          ![i].req = Len(futures) + 1]
    /\ UNCHANGED queueFrame

\* self._executor.join() returns and close() returns or re-raises
QJoin(i) ==
    /\ clients[i].pc = "join"
    /\ join_returns(sq_session.executor)
    /\ clients' = [clients EXCEPT ![i].pc = "closed"]
    /\ UNCHANGED <<sq_session, futures, queueFrame>>

InitQueue == InitState(FALSE) /\ backend = "SQLite"

NextQueue ==
    \/ \E i \in 1..NTasks : QConnect(i)
    \/ \E i \in 1..NTasks, kind \in ClosureKinds : QSubmit(i, kind)
    \/ ExecutorGet
    \/ \E closeRaises \in BOOLEAN : ExecutorRun(closeRaises)
    \/ LoopCallback
    \/ \E i \in 1..NTasks : QResume(i)
    \/ \E i \in 1..NTasks : QClose(i)
    \/ \E i \in 1..NTasks : QJoin(i)

SpecQueue == InitQueue /\ [][NextQueue]_vars

\* the executor thread runs while it is alive, the loop runs the callbacks
\* handed to it, and join() returns once the thread has ended
SpecQueueFair ==
    /\ SpecQueue
    /\ WF_vars(ExecutorGet)
    /\ WF_vars(\E closeRaises \in BOOLEAN : ExecutorRun(closeRaises))
    /\ WF_vars(LoopCallback)
    /\ WF_vars(\E i \in 1..NTasks : QJoin(i))

\* ------------------------------------------------- InMemory.keys(), stepwise
\* keys() reads the clock, copies the key list under the global lock, then
\* visits each key under that key's lock; calls of other threads (the sweeper
\* thread, other event loops) and the clock run between the visits.

\* list(self._shared_db.keys()): the keys present, in the dict's order
KeyLists(db) ==
    {sq \in KeySeqs \cup {<<>>} :
        SeqRange(sq) = DOMAIN db /\ Len(sq) = Cardinality(DOMAIN db)}

KeysBegin ==
    /\ kpc = "idle"
    /\ kpc' = "loop"
    /\ know' = now
    /\ ksnap' \in KeyLists(shared_db)
    /\ kvalid' = {}
    /\ UNCHANGED <<backend, now, storeVars, pc, tx, ret, auxVars>>

KeysVisit ==
    /\ kpc = "loop"
    /\ ksnap # <<>>
    /\ kvalid' = IF InMemory_keys_valid(shared_db, Head(ksnap), know)
                 THEN kvalid \cup {Head(ksnap)} ELSE kvalid
    /\ ksnap' = Tail(ksnap)
    /\ UNCHANGED <<backend, now, storeVars, pc, tx, ret, kpc, know, auxVars>>

KeysReturn ==
    /\ kpc = "loop"
    /\ ksnap = <<>>
    /\ kpc' = "idle"
    /\ ret' = Call("keys", "", "", None, NoneV, None, FALSE, kvalid, "ok", TRUE)
    /\ know' = 0
    /\ kvalid' = {}
    /\ UNCHANGED <<backend, now, storeVars, pc, tx, ksnap, auxVars>>

InitKeys == Init /\ backend = "InMemory"

\* the other threads set, expire and delete keys
NextKeys ==
    \/ Tick
    \/ \E k \in AllKeys : Set(k, "v1")
    \/ \E k \in AllKeys : SetExpire(k, 1)
    \/ \E k \in AllKeys : Delete(k)
    \/ KeysBegin
    \/ KeysVisit
    \/ KeysReturn

SpecKeys == InitKeys /\ [][NextKeys]_vars

\* --------------------------------- the sweep, concurrent with reads and writes
\* InMemory.delete_expired_attributes in a thread of its own, key by key; it
\* uses the position, clock and key-list variables of keys(), which has the
\* same shape.  The database sweep is one DELETE statement.

\* a test that removes every entry that carries an expiry
sweep_removes_any_expiry(db, key, t) ==
    key \in DOMAIN db /\ db[key].expires_at # None

\* `if entry and entry["expires_at"] and now > entry["expires_at"]`, on the
\* entry as it is when the key's lock is held, with the clock read at entry
sweep_removes(db, key, t) ==
    key \in DOMAIN db /\ db[key].expires_at # None /\ t > db[key].expires_at

SweepBegin ==
    /\ backend = "InMemory"
    /\ kpc = "idle"
    /\ check_connected(connected)
    /\ kpc' = "sweep"
    /\ know' = now
    /\ ksnap' \in KeyLists(shared_db)
    /\ UNCHANGED <<backend, now, storeVars, pc, tx, ret, kvalid, auxVars>>

SweepVisit ==
    /\ kpc = "sweep"
    /\ ksnap # <<>>
    /\ shared_db' = IF sweep_removes(shared_db, Head(ksnap), know)
                    THEN Drop(shared_db, Head(ksnap)) ELSE shared_db
    /\ ksnap' = Tail(ksnap)
    /\ UNCHANGED <<backend, now, working, committed, last_insert_rowid, in_transaction,
                   pc, tx, ret, kpc, know, kvalid, auxVars>>

SweepReturn ==
    /\ kpc = "sweep"
    /\ ksnap = <<>>
    /\ kpc' = "idle"
    /\ know' = 0
    /\ UNCHANGED <<backend, now, storeVars, pc, tx, ret, ksnap, kvalid, auxVars>>

\* the other threads read, write and renew keys; set_expire with ttl 1 or 2
NextSweep ==
    \/ Tick
    \/ \E k \in AllKeys : Set(k, "v1")
    \/ \E k \in AllKeys, ttl \in {1, 2} : SetExpire(k, ttl)
    \/ \E k \in AllKeys : Get(k)
    \/ SweepBegin
    \/ SweepVisit
    \/ SweepReturn
    \/ (backend = "SQLite" /\ Sweep)

SpecSweep == Init /\ [][NextSweep]_vars

TypeOK ==
    /\ backend \in Backends
    /\ now \in 0..Max(MaxTime, MaxTimeW)
    /\ pc \in {"idle", "inTx"}
    /\ in_transaction \in BOOLEAN
    /\ connected \in BOOLEAN
    /\ session.open \in BOOLEAN
    /\ ttl_worker.running \in BOOLEAN
    /\ ttl_worker.task \in {"none", "ready", "sweep", "sleep"}
    /\ ttl_worker.thread \in {"idle", "run"}
    /\ ttl_worker.ntasks \in 0..1
    /\ sq_session.running \in BOOLEAN
    /\ sq_session.executor \in {"unstarted", "waiting", "running", "exited"}
    /\ Len(futures) <= MaxReq
    /\ \A i \in 1..NTasks :
          clients[i].pc \in {"idle", "await", "connect_await", "close_await", "join",
                             "closed"}
    /\ Len(handles) <= MaxHandles
    /\ \A th \in 1..NThreads :
          batch_ops[th].pc \in {"idle", "acquire", "body", "release", "done"}
    /\ \A k \in AllKeys : shared_locks[k] \in 0..Max(NTasks, NThreads)

\* ============================================================== properties
\* what is physically stored for key k, whichever backend is in use
Stored(k) ==
    IF backend = "InMemory" THEN k \in DOMAIN shared_db ELSE k \in DOMAIN working.rows

StoredValue(k) ==
    IF backend = "InMemory" THEN shared_db[k].value ELSE working.rows[k].value[2]

StoredTtl(k) ==
    IF backend = "InMemory" THEN shared_db[k].ttl ELSE working.rows[k].ttl

HasExpiry(k) ==
    IF backend = "InMemory" THEN shared_db[k].expires_at # None
    ELSE working.rows[k].expires_at # None

\* the stored expiry instant, in ticks
ExpiresAt(k) ==
    IF backend = "InMemory" THEN shared_db[k].expires_at
    ELSE working.rows[k].expires_at * TicksPerSec

ExpiryPast(k) == Stored(k) /\ HasExpiry(k) /\ ExpiresAt(k) < now

ExpiryFutureOrNone(k) == Stored(k) /\ (~HasExpiry(k) \/ ExpiresAt(k) > now)

\* the same, of the state a step leads to
StoredNext(k) ==
    IF backend = "InMemory" THEN k \in DOMAIN shared_db' ELSE k \in DOMAIN working'.rows

StoredTtlNext(k) ==
    IF backend = "InMemory" THEN shared_db'[k].ttl ELSE working'.rows[k].ttl

HasExpiryNext(k) ==
    IF backend = "InMemory" THEN shared_db'[k].expires_at # None
    ELSE working'.rows[k].expires_at # None

ExpiresAtNext(k) ==
    IF backend = "InMemory" THEN shared_db'[k].expires_at
    ELSE working'.rows[k].expires_at * TicksPerSec

ExpiryPastNext(k) == StoredNext(k) /\ HasExpiryNext(k) /\ ExpiresAtNext(k) < now'

\* C1: a successful set(k, v) followed immediately (less than one second
\* later, no other call in between) by get(k) returns v, whatever k held before.
C1_RoundTrip ==
    [][(ret.op = "set" /\ ret.err = "ok" /\ ret'.op = "get" /\ ret'.key = ret.key)
         => ret'.rv = ret.val]_vars

\* C2: after a with_transaction block that raised, the connection's view and
\* the stored table are exactly the table as it was when the block was entered:
\* every value, presence and expiry is restored and no key created inside the
\* block is visible.
C2_RollbackRestores ==
    (ret.op = "with_transaction" /\ tx.raised # "none")
        => (working = tx.snap /\ committed = tx.snap)

\* C2 witness: a block that created a key and changed the table has raised
C2_Witness ==
    /\ ret.op = "with_transaction"
    /\ tx.raised # "none"
    /\ tx.ops = MaxTxOps
    /\ \E k \in AllKeys : k \in DOMAIN tx.view.rows /\ k \notin DOMAIN tx.snap.rows
    /\ \E k \in AllKeys : /\ k \in DOMAIN tx.view.rows
                           /\ k \in DOMAIN tx.snap.rows
                           /\ tx.view.rows[k] # tx.snap.rows[k]

\* C3: an exception raised inside a with_transaction block reaches the caller
\* of the block unchanged after the rollback.
C3_Reraises ==
    (ret.op = "with_transaction" /\ tx.raised # "none") => ret.err = tx.raised

\* C4: when a with_transaction block ends normally, begin ran once, commit ran
\* once, rollback never, and what the block wrote is what the database stores
\* and what the session reads.
C4_CommitOnExit ==
    (ret.op = "with_transaction" /\ ret.adapter /\ tx.raised = "none")
        => /\ tx.begins = 1 /\ tx.commits = 1 /\ tx.rollbacks = 0
           /\ committed = tx.view
           /\ working = tx.view
           /\ \A k \in AllKeys :
                 SQLite_get(working, k, now) = SQLite_get(tx.view, k, now)

\* C4 witness: a block that changed the table has ended normally
C4_Witness ==
    /\ ret.op = "with_transaction"
    /\ ret.adapter
    /\ tx.raised = "none"
    /\ tx.view # tx.snap
    /\ \E k \in AllKeys : SQLite_get(working, k, now) # SQLite_get(tx.snap, k, now)

\* C5: get(k) returns None and exists(k) False when k is missing or its expiry
\* is in the past, swept or not; they return the stored value and True when
\* the entry has no expiry or a future one.
C5_LogicalExpiry ==
    /\ ret.op = "get" =>
          /\ (~Stored(ret.key) \/ ExpiryPast(ret.key)) => ret.rv = NoneV
          /\ ExpiryFutureOrNone(ret.key) => ret.rv = StoredValue(ret.key)
    /\ ret.op = "exists" =>
          /\ (~Stored(ret.key) \/ ExpiryPast(ret.key)) => ~ret.rb
          /\ ExpiryFutureOrNone(ret.key) => ret.rb

\* C5 witness: get on an entry that is expired and still stored
C5_Witness == ret.op = "get" /\ ExpiryPast(ret.key) /\ ret.rv = NoneV

\* C6: when keys() returns, no key in its result has an expiry in the past,
\* also when the key expired between the key-list copy and its visit.
C6_KeysNoExpired ==
    ret.op = "keys" => \A k \in ret.rk : ~ExpiryPast(k)

\* C7: Session.set_expire with ttl < 1 raises ValueError, calls no adapter
\* method and leaves everything stored as it was.
C7_RejectsBadTtl ==
    [][(ret'.op = "set_expire" /\ ret'.ttl < 1)
         => (ret'.err = "ValueError" /\ ~ret'.adapter /\ UNCHANGED storeVars)]_vars

\* C7 witness: a rejected set_expire on a key that is stored with a ttl
C7_Witness ==
    /\ ret.op = "set_expire" /\ ret.ttl < 1 /\ ret.err = "ValueError"
    /\ Stored(ret.key) /\ HasExpiry(ret.key)

\* C8: set_expire(k, ttl) with ttl >= 1 on a stored key returns 1 and leaves
\* expires_at = now + ttl (at the backend's clock resolution) and the ttl,
\* replacing any earlier expiry; on an absent key it returns 0 and creates
\* nothing.
C8_SetExpire ==
    [][(ret'.op = "set_expire" /\ ret'.ttl >= 1 /\ ret'.age = 0)
         => /\ Stored(ret'.key) =>
                  /\ ret'.rn = 1
                  /\ StoredNext(ret'.key)
                  /\ StoredTtlNext(ret'.key) = ret'.ttl
                  /\ HasExpiryNext(ret'.key)
                  /\ ExpiresAtNext(ret'.key) =
                        IF backend = "InMemory"
                        THEN now + ret'.ttl * TicksPerSec
                        ELSE ((now \div TicksPerSec) + ret'.ttl) * TicksPerSec
            /\ ~Stored(ret'.key) =>
                  /\ ret'.rn = 0
                  /\ ~StoredNext(ret'.key)
                  /\ UNCHANGED storeVars]_vars

\* C8 witness: set_expire has replaced an expiry on a stored key
C8_Witness ==
    /\ ret.op = "set_expire" /\ ret.rn = 1 /\ ret.age = 0 /\ ret.ttl = 2
    /\ Stored(ret.key)
    /\ now > 0
    /\ ExpiresAt(ret.key) >= now + 2 * TicksPerSec - 1

\* the seconds left until k's expiry, rounded down and rounded up
RemainingDown(k) == Max(0, (ExpiresAt(k) - now) \div TicksPerSec)

RemainingUp(k) == Max(0, (ExpiresAt(k) - now + TicksPerSec - 1) \div TicksPerSec)

\* C9: get_expire(k) returns None when k is missing, expired or has no ttl,
\* and otherwise the remaining time max(0, expires_at - now) in whole seconds
\* (rounded either way).
C9_GetExpire ==
    ret.op = "get_expire" =>
        IF ~Stored(ret.key) \/ ExpiryPast(ret.key) \/ ~HasExpiry(ret.key)
        THEN ret.rn = None
        ELSE ret.rn \in {RemainingDown(ret.key), RemainingUp(ret.key)}

\* C10: get_expire(k) called immediately (less than one second) after a
\* set_expire(k, ttl) that applied returns r with 0 < r <= ttl, and exists(k)
\* is false once the clock is past the expiry instant.
C10_ExpireBounds ==
    [][/\ (ret.op = "set_expire" /\ ret.err = "ok" /\ ret.rn = 1
           /\ ret'.op = "get_expire" /\ ret'.key = ret.key)
              => (0 < ret'.rn /\ ret'.rn <= ret.ttl)
       /\ (ret'.op = "exists" /\ ExpiryPastNext(ret'.key)) => ~ret'.rb]_vars

\* C11: batch_set(m) followed by batch_get(ks) returns a mapping that holds
\* m[k] for every k of ks that m wrote, has no k of ks that is missing or
\* expired, and raises nothing.
C11_BatchRoundTrip ==
    [][(ret.op = "batch_set" /\ ret.err = "ok" /\ ret'.op = "batch_get")
         => /\ ret'.err = "ok"
            /\ \A k \in ret'.rk :
                  /\ k \in DOMAIN ret.kv
                        => (k \in DOMAIN ret'.kv /\ ret'.kv[k] = ret.kv[k])
                  /\ (~StoredNext(k) \/ ExpiryPastNext(k)) => k \notin DOMAIN ret'.kv]_vars

\* C12: delete(k) raises nothing, leaves no entry for k, and returns 1 when an
\* entry (live or expired) was stored and 0 when none was; an exists(k) or
\* get(k) that follows returns False / None.
C12_Delete ==
    [][/\ ret'.op = "delete"
            => /\ ret'.err = "ok"
               /\ ~StoredNext(ret'.key)
               /\ ret'.rn = IF Stored(ret'.key) THEN 1 ELSE 0
       /\ (ret.op = "delete" /\ ret'.op = "exists" /\ ret'.key = ret.key) => ~ret'.rb
       /\ (ret.op = "delete" /\ ret'.op = "get" /\ ret'.key = ret.key)
            => ret'.rv = NoneV]_vars

\* C12 witness: delete has removed an entry while another key stays stored
C12_Witness ==
    /\ ret.op = "delete" /\ ret.rn = 1 /\ ~Stored(ret.key)
    /\ \E k \in AllKeys : Stored(k) /\ HasExpiry(k)

\* the keys whose expiry passed while the TTL worker was running and more
\* than its interval ago
Overdue ==
    {k \in AllKeys : /\ Stored(k) /\ HasExpiry(k)
                     /\ ExpiresAt(k) >= ttl_worker.since
                     /\ now > ExpiresAt(k) + ttl_worker.interval}

\* C13: while the TTL worker is running with interval I, an entry whose expiry
\* passed more than I ago has been removed by a sweep: a count_expired_keys()
\* call finds no such entry stored.
C13_SweptWithinInterval ==
    (ret.op = "count_expired_keys" /\ ret.err = "ok" /\ ttl_worker.running)
        => Overdue = {}

\* C14: when no TTL worker is running -- stop() has returned and start() has
\* not been called again -- no sweep is executing, so none can delete an entry.
C14_StopQuiesces ==
    ~ttl_worker.running => ttl_worker.thread = "idle"

\* C15: every sweep the running TTL worker invokes goes through and leaves no
\* expired entry stored, whether a session is open on the adapter or not.
C15_SweepsWithoutSession ==
    ttl_worker.swept # "none"
        => (ttl_worker.swept = "ok" /\ \A k \in AllKeys : ~ExpiryPast(k))

\* C16: when all NTasks tasks have finished their get-then-set increment of
\* the counter, which started at 0, the counter is NTasks.
C16_NoLostUpdate ==
    (\A i \in 1..NTasks : tasks[i].pc = "done")
        => shared_db[CounterKey].value = NTasks

\* C17: with_transaction() on the in-memory adapter, which does not support
\* transactions, raises NotImplementedError at once: begin() is not called, no
\* block is entered and nothing stored or held by the adapter changes.
C17_UnsupportedFailsFast ==
    [][backend = "InMemory"
         => /\ pc' = "idle"
            /\ ret'.op = "with_transaction"
                 => /\ ret'.err = "NotImplementedError"
                    /\ ~ret'.adapter
                    /\ tx'.begins = 0
                    /\ UNCHANGED <<storeVars, connected>>]_vars

\* C17 witness: the request was refused while entries were stored
C17_Witness ==
    /\ backend = "InMemory"
    /\ ret.op = "with_transaction" /\ ret.err = "NotImplementedError"
    /\ \E k \in AllKeys : Stored(k)

\* C18: on the database handle, which supports transactions, begin() while a
\* transaction is open raises, and commit() or rollback() while none is open
\* raises; in each case the transaction flag and the stored data are unchanged.
C18_TransactionControlErrors ==
    [][backend = "SQLite"
         => /\ (ret'.op = "begin" /\ in_transaction)
                 => (ret'.err # "ok" /\ UNCHANGED storeVars)
            /\ (ret'.op \in {"commit", "rollback"} /\ ~in_transaction)
                 => (ret'.err # "ok" /\ UNCHANGED storeVars)]_vars

\* the data operations of an adapter
DataOps == {"get", "set", "batch_get", "batch_set", "delete", "exists", "keys",
            "set_expire", "get_expire"}

\* C19: a data operation that reaches an adapter whose handle is not connected
\* or has been closed raises "Connection is closed", changes nothing stored
\* and puts nothing on the worker queue.
C19_ClosedHandleRefuses ==
    [][(~connected /\ ret'.op \in DataOps /\ ret'.adapter)
         => /\ ret'.err = ConnectionClosed
            /\ ~ret'.queued
            /\ UNCHANGED storeVars]_vars

\* C19 witness: a set was refused on a handle that had been closed, with an
\* entry still stored
C19_Witness ==
    /\ ret.op = "set" /\ ret.err = ConnectionClosed
    /\ ~connected /\ session.closes = 1
    /\ \E k \in AllKeys : Stored(k)

\* C20: when a session block has ended, normally or by an exception, close()
\* has been called exactly once on its handle and the handle is not connected;
\* an exception goes on to the caller.  Inside the block close() has not run.
C20_SessionCloses ==
    /\ session.open => (session.closes = 0 /\ connected)
    /\ ret.op = "session"
          => /\ ~session.open
             /\ session.closes = 1
             /\ ~connected
             /\ ret.err = IF session.raised = "none" THEN "ok" ELSE session.raised

\* C20 witness: a session block that wrote an entry ended by an exception
C20_Witness ==
    /\ ret.op = "session" /\ session.raised # "none"
    /\ \E k \in AllKeys : Stored(k)

\* C21: in the in-memory backend a set(k, v) on a stored key that has a ttl
\* clears it: afterwards the entry has neither ttl nor expires_at.
C21_SetClearsTtl ==
    [][(backend = "InMemory" /\ ret'.op = "set" /\ ret'.err = "ok" /\ ret'.age = 0
        /\ Stored(ret'.key) /\ StoredTtl(ret'.key) # None)
         => (StoredTtlNext(ret'.key) = None /\ ~HasExpiryNext(ret'.key))]_vars

\* C22: in the database backend a set(k, v) on a stored key leaves the row with
\* the new value, created_at = now, the ttl it had, and expires_at =
\* created_at + ttl (none when the ttl is none), so that the key is readable
\* until ttl seconds after the write, on the engine's one-second clock.
C22_UpsertRecomputesExpiry ==
    [][(backend = "SQLite" /\ ret'.op = "set" /\ ret'.err = "ok" /\ ret'.age = 0
        /\ Stored(ret'.key))
         => LET old == working.rows[ret'.key]
                new == working'.rows[ret'.key]
            IN  /\ new.value = to_bytes(ret'.val)
                /\ new.created_at = CURRENT_TIMESTAMP(now)
                /\ new.ttl = old.ttl
                /\ new.id = old.id
                /\ new.expires_at = IF old.ttl = None THEN None
                                    ELSE new.created_at + old.ttl
                /\ \A t \in now..(now + 3 * TicksPerSec) :
                      (SQLite_get(working', ret'.key, t) = ret'.val)
                         <=> (old.ttl = None
                              \/ CURRENT_TIMESTAMP(t) < new.created_at + old.ttl)]_vars

\* C22 witness: a set has overwritten a row that carries a ttl and an expiry
\* that had passed
C22_Witness ==
    /\ backend = "SQLite" /\ ret.op = "set" /\ ret.err = "ok" /\ ret.age = 0
    /\ ret.key \in DOMAIN working.rows
    /\ working.rows[ret.key].ttl # None
    /\ working.rows[ret.key].created_at > 0
    /\ working.rows[ret.key].expires_at = working.rows[ret.key].created_at
                                            + working.rows[ret.key].ttl

\* C23: outside a transaction batch_set(m) writes every entry of m that can
\* be written, also when another entry of m cannot, and returns the number of
\* entries it wrote instead of raising.
C23_BatchSetBestEffort ==
    [][(ret'.op = "batch_set" /\ ret'.age = 0 /\ ret'.adapter /\ ~in_transaction)
         => LET good == {k \in ret'.rk : ret'.kv[k] # NotDatatype}
            IN  /\ ret'.err = "ok"
                /\ ret'.rn = Cardinality(good)
                /\ \A k \in good :
                      /\ StoredNext(k)
                      /\ IF backend = "InMemory"
                         THEN shared_db'[k].value = ret'.kv[k]
                         ELSE working'.rows[k].value = to_bytes(ret'.kv[k])]_vars

\* --------------------------------------- InMemory batch operations, stepwise
\* NThreads threads, each with its own event loop, share the class-level store
\* and lock registry; each runs one batch_get or batch_set, one lock
\* acquisition, one key of the loop and one lock release per step.
SortedKeys == <<"k1", "k2">>

\* locks taken in one canonical order whatever the caller passed
batch_locks_sorted(ks) == SelectSeq(SortedKeys, LAMBDA k : k \in SeqRange(ks))

\* only the lock of the first key taken
batch_locks_first(ks) == <<ks[1]>>

\* locks = [self._get_lock(k) for k in keys]: one lock per key, in the order
\* of the caller's list or mapping
batch_locks(ks) == ks

batchFrame == <<backend, now, working, committed, last_insert_rowid, in_transaction,
                pc, tx, ret, keysVars, connected, session, ttl_worker, tasks,
                sq_session, futures, clients, handles, scopes>>

\* the store is filled before the threads start
BSeed(ks, kv) ==
    /\ \A th \in 1..NThreads : batch_ops[th].pc = "idle"
    /\ shared_db = EmptyMap
    /\ BatchSet(ks, kv)

\* batch_get(keys) / batch_set(key_values) up to the lock list
BStart(th, op, ks, kv) ==
    /\ batch_ops[th].pc = "idle"
    /\ check_connected(connected)
    /\ batch_ops' = [batch_ops EXCEPT ![th] =
                        [NoBatch EXCEPT !.op = op, !.ks = ks, !.kv = kv,
                                        !.pc = "acquire"]]
    /\ UNCHANGED <<shared_db, shared_locks, batchFrame>>

\* `for lock in locks: lock.acquire()`: the next lock, once it is free
BAcquire(th) ==
    /\ batch_ops[th].pc = "acquire"
    /\ LET b == batch_ops[th]
           locks == batch_locks(b.ks)
           k == locks[b.held + 1]
       IN  /\ shared_locks[k] = 0
           /\ shared_locks' = [shared_locks EXCEPT ![k] = th]
           /\ batch_ops' = [batch_ops EXCEPT
                 ![th].held = b.held + 1,
                 ![th].pc = IF b.held + 1 = Len(locks) THEN "body" ELSE "acquire",
                 ![th].before = IF b.held + 1 = Len(locks)
                                THEN InMemory_batch_get(shared_db, b.ks, now)
                                ELSE @]
    /\ UNCHANGED <<shared_db, batchFrame>>

\* one iteration of the loop over the keys
BStep(th) ==
    /\ batch_ops[th].pc = "body"
    /\ LET b == batch_ops[th]
           k == b.ks[b.at + 1]
           last == b.at + 1 = Len(b.ks)
       IN  /\ IF b.op = "batch_get"
              THEN /\ batch_ops' = [batch_ops EXCEPT
                         ![th].seen = IF InMemory_get(shared_db, k, now) # NoneV
                                      THEN Put(@, k, InMemory_get(shared_db, k, now))
                                      ELSE @,
                         ![th].at = b.at + 1,
                         ![th].pc = IF last THEN "release" ELSE "body"]
                   /\ UNCHANGED shared_db
              ELSE IF b.kv[k] = NotDatatype
              THEN \* key_values[key].value raises: straight to the finally clause
                   /\ batch_ops' = [batch_ops EXCEPT ![th].pc = "release"]
                   /\ UNCHANGED shared_db
              ELSE /\ shared_db' = InMemory_set(shared_db, k, b.kv[k], now)
                   /\ batch_ops' = [batch_ops EXCEPT
                         ![th].at = b.at + 1,
                         ![th].pc = IF last THEN "release" ELSE "body"]
    /\ UNCHANGED <<shared_locks, batchFrame>>

\* `for lock in reversed(locks): lock.release()`: the next release
BRelease(th) ==
    /\ batch_ops[th].pc = "release"
    /\ LET b == batch_ops[th]
           locks == batch_locks(b.ks)
       IN  /\ shared_locks' = [shared_locks EXCEPT ![locks[b.held]] = 0]
           /\ batch_ops' = [batch_ops EXCEPT
                 ![th].held = b.held - 1,
                 ![th].pc = IF b.held = 1 THEN "done" ELSE "release"]
    /\ UNCHANGED <<shared_db, batchFrame>>

InitBatch == Init /\ backend = "InMemory"

NextBatch ==
    \/ \E ks \in KeySeqs : \E kv \in [SeqRange(ks) -> AllValues] : BSeed(ks, kv)
    \/ \E th \in 1..NThreads, ks \in KeySeqs : BStart(th, "batch_get", ks, EmptyMap)
    \/ \E th \in 1..NThreads, ks \in KeySeqs :
          \E kv \in [SeqRange(ks) -> AllValues] : BStart(th, "batch_set", ks, kv)
    \/ \E th \in 1..NThreads : BAcquire(th)
    \/ \E th \in 1..NThreads : BStep(th)
    \/ \E th \in 1..NThreads : BRelease(th)

SpecBatch == InitBatch /\ [][NextBatch]_vars

\* key lists as a caller of batch_get may pass them: a list may name a key
\* more than once
KeyListsRep ==
    {<<k>> : k \in AllKeys} \cup {<<a, b>> : a \in AllKeys, b \in AllKeys}

\* the batch operations over every input: repeated keys in batch_get's list,
\* values in batch_set's mapping whose .value cannot be read
NextBatchLocks ==
    \/ \E ks \in KeySeqs : \E kv \in [SeqRange(ks) -> AllValues] : BSeed(ks, kv)
    \/ \E th \in 1..NThreads, ks \in KeyListsRep :
          BStart(th, "batch_get", ks, EmptyMap)
    \/ \E th \in 1..NThreads, ks \in KeySeqs :
          \E kv \in [SeqRange(ks) -> BatchValues] : BStart(th, "batch_set", ks, kv)
    \/ \E th \in 1..NThreads : BAcquire(th)
    \/ \E th \in 1..NThreads : BStep(th)
    \/ \E th \in 1..NThreads : BRelease(th)

SpecBatchLocks == InitBatch /\ [][NextBatchLocks]_vars

\* ------------------------------------------ concurrently open session scopes
\* NScopes PyCache.session() scopes of one PyCache overlap in time.  handles
\* holds the adapter objects connect() has returned, each with its running
\* flag (_connected / _running) and its _in_transaction flag.

\* a connect() that hands out the adapter object itself
SQLite_connect_returns_self(hs) == 1

\* SQLite.connect: a fresh SQLiteSession each time
SQLite_connect_returns(hs) == Len(hs) + 1

\* InMemory.connect: `return self`, the adapter object PyCache holds
InMemory_connect_returns(hs) == 1

connect_returns(hs) ==
    IF backend = "SQLite" THEN SQLite_connect_returns(hs)
    ELSE InMemory_connect_returns(hs)

HandleCall(op, sc, err) == Call(op, "", "", None, NoneV, sc, FALSE, {}, err, TRUE)

handleFrame == <<backend, now, storeVars, pc, tx, keysVars, connected, session,
                 ttl_worker, tasks, shared_locks, sq_session, futures, clients,
                 batch_ops>>

\* PyCache.session(): `session = await self._adapter.connect()`
HConnect(sc) ==
    /\ ~scopes[sc].open
    /\ LET h == connect_returns(handles)
       IN  /\ h <= MaxHandles
           /\ handles' = IF h > Len(handles)
                          THEN Append(handles, [running |-> TRUE,
                                                in_transaction |-> FALSE])
                          ELSE [handles EXCEPT ![h].running = TRUE]
           /\ scopes' = [scopes EXCEPT ![sc] = [handle |-> h, open |-> TRUE]]
    /\ ret' = HandleCall("connect", sc, "ok")
    /\ UNCHANGED handleFrame

\* PyCache.session(): `finally: await session.close()`
HClose(sc) ==
    /\ scopes[sc].open
    /\ handles' = [handles EXCEPT ![scopes[sc].handle].running = close(@)]
    /\ scopes' = [scopes EXCEPT ![sc].open = FALSE]
    /\ ret' = HandleCall("close", sc,
                         IF backend = "SQLite" /\ ~handles[scopes[sc].handle].running
                         THEN ConnectionClosed ELSE "ok")
    /\ UNCHANGED handleFrame

\* begin() on the scope's handle
HBegin(sc) ==
    /\ scopes[sc].open
    /\ LET h == scopes[sc].handle
       IN  IF backend = "InMemory"
           THEN /\ ret' = HandleCall("begin", sc, "ok")
                /\ UNCHANGED handles
           ELSE IF ~handles[h].running
           THEN /\ ret' = HandleCall("begin", sc, ConnectionClosed)
                /\ UNCHANGED handles
           ELSE /\ ret' = HandleCall("begin", sc,
                                     SQLite_begin_error(handles[h].in_transaction))
                /\ handles' = [handles EXCEPT ![h].in_transaction = TRUE]
    /\ UNCHANGED <<scopes, handleFrame>>

\* commit() or rollback() on the scope's handle
HEnd(sc, op) ==
    /\ scopes[sc].open
    /\ LET h == scopes[sc].handle
       IN  IF backend = "InMemory"
           THEN /\ ret' = HandleCall(op, sc, "ok")
                /\ UNCHANGED handles
           ELSE IF ~handles[h].running
           THEN /\ ret' = HandleCall(op, sc, ConnectionClosed)
                /\ UNCHANGED handles
           ELSE /\ ret' = HandleCall(op, sc, "ok")
                /\ handles' = [handles EXCEPT ![h].in_transaction = FALSE]
    /\ UNCHANGED <<scopes, handleFrame>>

\* a data operation on the scope's handle: served or refused
HExists(sc) ==
    /\ scopes[sc].open
    /\ ret' = HandleCall("exists", sc,
                         IF check_connected(handles[scopes[sc].handle].running)
                         THEN "ok" ELSE ConnectionClosed)
    /\ UNCHANGED <<handles, scopes, handleFrame>>

InitHandles == InitState(FALSE)

NextHandles ==
    \/ \E sc \in 1..NScopes : HConnect(sc)
    \/ \E sc \in 1..NScopes : HClose(sc)
    \/ \E sc \in 1..NScopes : HBegin(sc)
    \/ \E sc \in 1..NScopes, op \in {"commit", "rollback"} : HEnd(sc, op)
    \/ \E sc \in 1..NScopes : HExists(sc)

SpecHandles == InitHandles /\ [][NextHandles]_vars

FutureIds == 1..Len(futures)
Completed(id) == futures[id].phase \in {"done", "resolved"}

\* C24: the closures of one session run one at a time and in submission
\* order: at most one is running, and a closure has started only when every
\* closure submitted before it has finished.
C24_OneAtATimeFifo ==
    /\ Cardinality({id \in FutureIds : futures[id].phase = "running"}) <= 1
    /\ \A a \in FutureIds, b \in FutureIds :
          (a < b /\ futures[b].phase # "queued") => Completed(a)

\* C24 witness: two requests of different tasks are pending together, the
\* earlier one running and the later one still queued
C24_Witness ==
    \E a \in FutureIds, b \in FutureIds :
       /\ a < b /\ futures[a].owner # futures[b].owner
       /\ futures[a].phase = "running" /\ futures[b].phase = "queued"

\* C25: every future _execute created is resolved exactly once, with the
\* outcome of its closure, also when it was created while close() was waiting;
\* the executor thread ends only on the stop sentinel, never on an error.
C25_ResolvedOnce ==
    /\ [](\A id \in FutureIds :
             /\ futures[id].resolutions <= 1
             /\ futures[id].phase = "resolved"
                   => (futures[id].resolutions = 1
                       /\ futures[id].result = futures[id].outcome
                       /\ futures[id].result =
                             action_outcome(futures[id].kind,
                                 IF futures[id].result = "ProgrammingError"
                                 THEN "closed" ELSE "open",
                                 futures[id].result = "CloseError")))
    /\ [](sq_session.executor = "exited" => sq_session.payload = STOP_RUNNING_EXECUTOR)
    /\ \A n \in 1..(MaxReq + 1) :
          (Len(futures) >= n) ~> (Len(futures) >= n /\ futures[n].resolutions = 1)

\* C25 witness: a request another task enqueued while close() was waiting for
\* the engine close has been resolved with the error its closure raised, after
\* a closure that raised, and close() has returned
C25_Witness ==
    \E a \in FutureIds, b \in FutureIds, c \in FutureIds :
       /\ c < a /\ a < b
       /\ futures[c].phase = "resolved" /\ futures[c].result = "IntegrityError"
       /\ futures[a].kind = "close" /\ futures[b].owner # futures[a].owner
       /\ futures[b].phase = "resolved" /\ futures[b].result = "ProgrammingError"
       /\ clients[futures[a].owner].pc = "closed"

\* C26: the engine close starts only when every request enqueued before it has
\* completed; the stop sentinel is sent by a close() that has stopped the
\* handle; and a close() that has returned or raised leaves no live executor
\* thread, whether the engine close returned or raised.
C26_CloseJoinsWorker ==
    /\ \A id \in FutureIds :
          (futures[id].kind = "close" /\ futures[id].phase # "queued")
             => \A a \in 1..(id - 1) : Completed(a)
    /\ (STOP_RUNNING_EXECUTOR \in SeqRange(sq_session.operation_queue)
        \/ sq_session.executor = "exited")
          => (~sq_session.running
              /\ \E i \in 1..NTasks : clients[i].pc \in {"join", "closed"})
    /\ \A i \in 1..NTasks :
          clients[i].pc = "closed" => sq_session.executor \notin {"waiting", "running"}

\* C26 witness: close() has re-raised the error of the engine close, after an
\* earlier request of another task, and the thread has ended
C26_Witness ==
    \E i \in 1..NTasks, a \in FutureIds :
       /\ clients[i].pc = "closed" /\ clients[i].err = "CloseError"
       /\ futures[a].kind = "op" /\ futures[a].owner # i
       /\ futures[a].result = "result"
       /\ sq_session.executor = "exited"

\* C27: in the database backend every open scope has a handle of its own,
\* and a call made through one scope (connect, close, begin, commit, rollback)
\* leaves the running flag and the in_transaction flag of every other open
\* scope's handle as they were.
C27_HandlesIndependent ==
    /\ [](backend = "SQLite"
            => \A s1 \in 1..NScopes, s2 \in 1..NScopes :
                  (s1 # s2 /\ scopes[s1].open /\ scopes[s2].open)
                     => scopes[s1].handle # scopes[s2].handle)
    /\ [][backend = "SQLite"
            => \A s2 \in 1..NScopes :
                  (scopes[s2].open /\ ret'.rn # s2)
                     => /\ scopes'[s2] = scopes[s2]
                        /\ handles'[scopes[s2].handle] = handles[scopes[s2].handle]]_vars

\* C27 witness: one scope has been closed while another, opened before that,
\* is still running with its transaction open
C27_Witness ==
    /\ backend = "SQLite"
    /\ ret.op = "close" /\ ret.rn = 1
    /\ ~scopes[1].open /\ ~handles[scopes[1].handle].running
    /\ scopes[2].open /\ scopes[2].handle > scopes[1].handle
    /\ handles[scopes[2].handle].running
    /\ handles[scopes[2].handle].in_transaction

Lookup(m, k) == IF k \in DOMAIN m THEN m[k] ELSE NoneV

SharedKeys(g, w) == SeqRange(batch_ops[g].ks) \cap SeqRange(batch_ops[w].ks)

\* C28: a batch_get that has read its keys, against a batch_set of another
\* thread that has begun to write (no third thread writing those keys):
\* for the keys they share the batch_get holds either every value the keys had
\* when the batch_set began to write or every value the batch_set writes.
C28_NoPartialUpdate ==
    \A g \in 1..NThreads, w \in 1..NThreads :
       (/\ g # w
        /\ batch_ops[g].op = "batch_get" /\ batch_ops[g].pc \in {"release", "done"}
        /\ batch_ops[w].op = "batch_set"
        /\ batch_ops[w].pc \in {"body", "release", "done"}
        /\ \A x \in 1..NThreads \ {g, w} :
              batch_ops[x].op = "batch_set"
                 => SeqRange(batch_ops[x].ks) \cap SharedKeys(g, w) = {})
         => \/ \A k \in SharedKeys(g, w) :
                  Lookup(batch_ops[g].seen, k) = Lookup(batch_ops[w].before, k)
            \/ \A k \in SharedKeys(g, w) :
                  Lookup(batch_ops[g].seen, k) = batch_ops[w].kv[k]

\* C28 witness: a batch_set over both keys, given in the opposite order, has
\* changed both of them, and the batch_get has then read both new values
C28_Witness ==
    \E g \in 1..NThreads, w \in 1..NThreads :
       /\ batch_ops[g].op = "batch_get" /\ batch_ops[g].pc = "release"
       /\ batch_ops[w].op = "batch_set" /\ batch_ops[w].pc = "done"
       /\ batch_ops[g].ks = <<"k1", "k2">> /\ batch_ops[w].ks = <<"k2", "k1">>
       /\ \A k \in AllKeys : /\ Lookup(batch_ops[w].before, k) # batch_ops[w].kv[k]
                             /\ Lookup(batch_ops[w].before, k) # NoneV
                             /\ Lookup(batch_ops[g].seen, k) = batch_ops[w].kv[k]

LocksHeld(th) == {k \in AllKeys : shared_locks[k] = th}

\* two threads, each waiting for a lock the other holds
Deadlocked ==
    \E a \in 1..NThreads, b \in 1..NThreads :
       /\ a # b
       /\ batch_ops[a].pc = "acquire" /\ batch_ops[b].pc = "acquire"
       /\ batch_ops[a].ks[batch_ops[a].held + 1] \in LocksHeld(b)
       /\ batch_ops[b].ks[batch_ops[b].held + 1] \in LocksHeld(a)

\* C29: while a batch operation acquires its locks it holds exactly the locks
\* of the first keys of the caller's list, in that order; and a state in which
\* two batch operations each wait for a lock the other holds is never left.
C29_CallerOrderDeadlock ==
    /\ [](\A th \in 1..NThreads :
             batch_ops[th].pc \in {"acquire", "body"}
                => LocksHeld(th) = {batch_ops[th].ks[n] : n \in 1..batch_ops[th].held})
    /\ [][Deadlocked => Deadlocked']_vars

\* C29 witness: batch operations over the same two keys, given in opposite
\* orders, are deadlocked, a batch_get among them
C29_Witness ==
    /\ Deadlocked
    /\ \E a \in 1..NThreads, b \in 1..NThreads :
          /\ batch_ops[a].op = "batch_get" /\ batch_ops[a].ks = <<"k1", "k2">>
          /\ batch_ops[b].op = "batch_set" /\ batch_ops[b].ks = <<"k2", "k1">>
          /\ LocksHeld(a) = {"k1"} /\ LocksHeld(b) = {"k2"}

\* C30: a TTLWorker never has more than one task that has not ended, and
\* has one exactly while its task field is set; start() called while a task
\* is alive ends with one task, the new one.
C30_OneSweepTask ==
    /\ ttl_worker.ntasks <= 1
    /\ (ttl_worker.ntasks = 1) <=> (ttl_worker.task # "none")
    /\ (ret.op = "TTLWorker.start" /\ ret.age = 0) => ttl_worker.ntasks = 1

\* C30 witness: start() was called while the worker's task was alive, with a
\* callback of that task still executing in its thread
C30_Witness ==
    /\ ret.op = "TTLWorker.start" /\ ret.age = 0 /\ ret.rn = 1
    /\ ttl_worker.ntasks = 1 /\ ttl_worker.task = "ready"
    /\ ttl_worker.thread = "run"

\* C31: when a sweep raises, the worker's task catches it: the worker is
\* still running with its one task, asleep for the interval, no caller's
\* call result changes, and a sleeping running worker whose interval has run
\* out makes its next attempt.
C31_SweepErrorCaught ==
    /\ [][(ttl_worker'.swept = ConnectionClosed /\ ttl_worker.swept # ConnectionClosed)
            => /\ ttl_worker'.running
               /\ ttl_worker'.task = "sleep"
               /\ ttl_worker'.timer = ttl_worker.interval
               /\ ttl_worker'.ntasks = 1
               /\ ret' = ret]_vars
    /\ []((ttl_worker.running /\ ttl_worker.task = "sleep" /\ ttl_worker.timer = 0
           /\ ttl_worker.thread = "idle")
             => ENABLED WorkerSweepStart)

\* C31 witness: a sweep has raised at least one interval after the worker was
\* started with no session open, so after an earlier attempt, and the worker
\* is asleep again
C31_Witness ==
    /\ ttl_worker.swept = ConnectionClosed
    /\ ~connected /\ session.connects = 0
    /\ ttl_worker.running /\ ttl_worker.task = "sleep"
    /\ ttl_worker.interval > 0
    /\ now >= ttl_worker.since + ttl_worker.interval

\* C32: with reads and writes going on beside it, every entry a sweep removes
\* carries an expiry that is not in the future at the moment it is removed:
\* an entry without expiry, with a future expiry, or renewed before the sweep
\* came to it stays.  (No other step of this specification removes an entry.)
C32_SweepRemovesOnlyExpired ==
    [][\A k \in AllKeys :
          (Stored(k) /\ ~StoredNext(k)) => (HasExpiry(k) /\ ExpiresAt(k) <= now)]_vars

\* C32 witness: an in-memory sweep has visited every key of its list, removed
\* one, and left one whose expiry was set after the sweep read the clock
C32_Witness ==
    /\ backend = "InMemory"
    /\ kpc = "sweep" /\ ksnap = <<>>
    /\ \E k \in AllKeys : ~Stored(k)
    /\ \E k \in AllKeys :
          /\ Stored(k) /\ HasExpiry(k)
          /\ ExpiresAt(k) - StoredTtl(k) * TicksPerSec > know

CreatedAt(k) ==
    IF backend = "InMemory" THEN shared_db[k].created_at
    ELSE working.rows[k].created_at * TicksPerSec

\* C33: every stored entry has an expires_at exactly when it has a ttl.
C33_ExpiryIffTtl ==
    \A k \in AllKeys : Stored(k) => (HasExpiry(k) <=> StoredTtl(k) # None)

\* C33 witness: an entry with ttl and expiry has been overwritten by set and
\* has both, beside an entry that has neither
C33_Witness ==
    /\ ret.op = "set" /\ ret.err = "ok" /\ ret.age = 0
    /\ Stored(ret.key) /\ HasExpiry(ret.key) /\ StoredTtl(ret.key) # None
    /\ \E k \in AllKeys : Stored(k) /\ ~HasExpiry(k) /\ StoredTtl(k) = None

\* C34: every stored entry that has an expires_at and a ttl has
\* expires_at = created_at + ttl.
C34_ExpiryIsCreatedPlusTtl ==
    \A k \in AllKeys :
       (Stored(k) /\ HasExpiry(k) /\ StoredTtl(k) # None)
          => ExpiresAt(k) = CreatedAt(k) + StoredTtl(k) * TicksPerSec

\* C35: in the database backend a successful set(k, v) returns the id of the
\* row that stores k, when it inserts the row and when it updates it.
C35_SetReturnsRowId ==
    [][(backend = "SQLite" /\ ret'.op = "set" /\ ret'.err = "ok" /\ ret'.age = 0
        /\ ret'.adapter)
         => ret'.rn = working'.rows[ret'.key].id]_vars

\* C36: with the in-memory adapter an operation made through a session scope
\* that is open is served, not refused as closed, also after another scope
\* of the same PyCache that overlapped it has been closed.
C36_OpenScopeServed ==
    [][(backend = "InMemory" /\ ret'.op = "exists" /\ scopes[ret'.rn].open)
         => ret'.err = "ok"]_vars

\* the sweeper tasks the facade has started that have not ended: those of its
\* current TTLWorker and the loop of a worker it replaced
FacadeSweepers == ttl_worker.ntasks + (IF ttl_worker.orphaned THEN 1 ELSE 0)

\* C37: at most one sweeper task started by the facade is alive, and none is
\* when stop_ttl_deletion() has just returned.
C37_OneFacadeSweeper ==
    /\ FacadeSweepers <= 1
    /\ (ret.op = "stop_ttl_deletion" /\ ret.age = 0) => FacadeSweepers = 0

\* what get(k) answers in the current state, and in the next one
GetNow(k) ==
    IF backend = "InMemory" THEN InMemory_get(shared_db, k, now)
    ELSE SQLite_get(working, k, now)

GetNext(k) ==
    IF backend = "InMemory" THEN InMemory_get(shared_db', k, now')
    ELSE SQLite_get(working', k, now')

\* k has an entry that get no longer shows
LogicallyExpired(k) == Stored(k) /\ GetNow(k) = NoneV

\* C38: an entry that is logically expired stays unreadable through every
\* step that is not a set or batch_set, and a set_expire on it answers 0.
C38_ExpiredStaysAbsent ==
    [][\A k \in AllKeys :
         (LogicallyExpired(k) /\ ret'.op \notin {"set", "batch_set"})
            => /\ GetNext(k) = NoneV
               /\ (ret'.op = "set_expire" /\ ret'.age = 0 /\ ret'.key = k
                     /\ ret'.err = "ok") => ret'.rn = 0]_vars

\* thread th waits in batch_get / batch_set for a lock it holds itself
SelfBlocked(th) ==
    /\ batch_ops[th].pc = "acquire"
    /\ shared_locks[batch_locks(batch_ops[th].ks)[batch_ops[th].held + 1]] = th

\* C39: a batch_get or batch_set never waits for a lock it holds itself, and
\* when it has returned or raised it holds no key's lock.
C39_BatchLocksReleased ==
    \A th \in 1..NThreads :
        /\ ~SelfBlocked(th)
        /\ batch_ops[th].pc = "done" => \A k \in AllKeys : shared_locks[k] # th

\* C40: a set made by another task outside any block, while a block of the
\* first task is open on the shared session, is committed when it returns
\* successfully, and the row it stored is still there after the block's
\* rollback.
C40_OutsideWriteSurvives ==
    [][/\ (tx'.outside # tx.outside)
            => /\ ret'.key \in DOMAIN committed'.rows
               /\ committed'.rows[ret'.key] = tx'.outside[ret'.key]
       /\ (tx'.rollbacks = tx.rollbacks + 1)
            => \A k \in DOMAIN tx.outside :
                  (k \in DOMAIN working.rows /\ working.rows[k] = tx.outside[k])
                     => (k \in DOMAIN working'.rows
                           /\ working'.rows[k] = tx.outside[k])]_vars

====
